---- MODULE Spec2Model ----
(***************************************************************************)
(* Verification model of odbrs, a demand-responsive bus simulation.        *)
(*                                                                         *)
(*   SpecOrder  waypoint forest and greedy ordering (waypoints.rs)         *)
(*   Spec       dynamic dispatch controller tick: passenger lifecycle,     *)
(*              vehicle kinematics, LNS destructive / constructive         *)
(*              (dyn_controller/mod.rs, dyn_controller/bus.rs)             *)
(*   SpecGen    demand generator thread (simulation/demand/mod.rs)         *)
(*   SpecSim    orchestrator loop and its channels (simulation/mod.rs)     *)
(*   SpecRoute  find_route and create_path on small graphs                 *)
(*   SpecStatic static controller tick (static_controller/mod.rs)          *)
(*   SpecPassenger  Passenger::update on every status                      *)
(*   SpecGenLive, SpecOrderLive: the same with fair scheduling             *)
(*                                                                         *)
(* Geometry.  The road graph is three nodes on one straight line, so a     *)
(* point is its abscissa, hypot(dx, 0) is |dx| and every distance the code *)
(* computes in f64 is an exact integer here.                               *)
(***************************************************************************)
EXTENDS Integers, Sequences, FiniteSets, TLC

VARIABLES
    \* ---- waypoint ordering (create_ordering, one step per loop turn)
    o_bus,          \* the vehicle state handed to bus_waypoints
    o_start,        \* starting_point
    forest,         \* waypoints: DirForest
    ordering,       \* ordering: VecDeque<Waypoint>
    last_position,  \* last_position
    actions,        \* the actions of the chosen node still to be visited
    best_node,      \* node of best_node
    o_pc,           \* position in create_ordering
    \* ---- dynamic controller
    buses,          \* DynamicController.buses
    demands,        \* DynamicController.demands (unassigned queue)
    pid,            \* DynamicController.pid
    ticks,          \* number of update_agents calls started
    pc,             \* position in update_agents
    cur,            \* index of the bus a loop over buses is at
    move_distance,  \* move_self: distance budget left in this tick
    \* ---- demand generator thread
    g_chan,         \* sync_channel(1): messages in flight
    g_buffer,       \* buffer: pre-generated samples
    g_queue,        \* demand_queue (shared, lock protected)
    g_started,      \* started
    g_state,        \* "running", "stopped" or "panicked"
    g_made,         \* samples generated so far (sample identity)
    g_sent,         \* Yield requests sent so far
    g_last,         \* last_time
    g_main,         \* the thread that owns the DemandGenerator
    \* ---- simulation orchestrator (Simulation::start)
    s_rx,           \* rx: control messages sent and not yet received
    s_state,        \* state: SimulationState
    s_speed,        \* speed: tick speed in ms
    s_i,            \* i: the simulated clock, in minutes of the day
    s_updates,      \* update_agents calls the active controller has completed
    s_analytics,    \* analytics_tx: "open", or "closed" once its receiver is gone
    \* ---- router (find_route called on some graph)
    r_graph,        \* graph: &Graph
    r_source,       \* source
    r_dest,         \* dest
    r_result,       \* what the call gave: whether it panicked, the Vec it returned
    r_pc,           \* "call", "returned" or "panicked"; for create_path "path",
                    \* "created" or "path_panicked"
    r_waypoints,    \* create_path: self.path_waypoints
    r_path,         \* create_path: path
    r_k,            \* create_path: the place of the loop in path_waypoints
    \* ---- static controller (StaticController::update_agents)
    st_time,        \* time: the tick's clock, in half minutes of the day
    st_trips,       \* network_data.trips: trip id -> timings[0].0, in half minutes
    st_buses,       \* buses: trip id -> the StaticAgent spawned for it
    st_spawns,      \* per trip, the StaticAgent::new calls made for it so far
    st_pool,        \* passenger_pool
    st_passenger_id,\* passenger_id
    st_draws,       \* the samples the generator drew for the last batch
    st_pc,          \* position in update_agents
    \* ---- one passenger, updated tick after tick (Passenger::update)
    u_first,        \* the status it started with
    u_p,            \* the Passenger
    u_n,            \* update() calls made on it
    u_pc,           \* "live", or "panicked" once a call has panicked
    \* ---- basic_route_finding called once (static_controller/mod.rs)
    f_in,           \* the network data and the arguments of the call
    f_out,          \* the Vec<Control> returned
    f_pc,           \* "call", "returned"
    \* ---- one static vehicle moved tick after tick (agent.rs move_agent)
    a_agent,        \* the StaticAgent
    a_checks,       \* stop_check calls of the last tick, as indices of trip stops
    a_legs,         \* the stretches of edge the last tick covered
    a_pc            \* "move", "done", "panicked"

ordVars == <<o_bus, o_start, forest, ordering, last_position, actions, best_node, o_pc>>
dynVars == <<buses, demands, pid, ticks, pc, cur, move_distance>>
genVars == <<g_chan, g_buffer, g_queue, g_started, g_state, g_made, g_sent, g_last, g_main>>
simVars == <<s_rx, s_state, s_speed, s_i, s_updates, s_analytics>>
routeVars == <<r_graph, r_source, r_dest, r_result, r_pc, r_waypoints, r_path, r_k>>
staticVars == <<st_time, st_trips, st_buses, st_spawns, st_pool, st_passenger_id,
                st_draws, st_pc>>
passVars == <<u_first, u_p, u_n, u_pc>>
findVars == <<f_in, f_out, f_pc>>
agentVars == <<a_agent, a_checks, a_legs, a_pc>>
moreVars == <<simVars, routeVars, staticVars, passVars, findVars, agentVars>>
vars == <<ordVars, dynVars, genVars, moreVars>>

(***************************************************************************)
(* Bounds                                                                  *)
(***************************************************************************)
MaxAboard == 1      \* SpecOrder: passengers aboard the vehicle handed in
MaxPending == 2     \* SpecOrder: passengers pending in its assignment map
NumBuses == 2       \* Spec: dynamic_agent_count is 1..NumBuses
BusCapacity == 1    \* Spec: max_capacity of a bus (spawn_agent passes 20)
MaxPassengers == 2  \* Spec: passengers generated in a run
MaxTicks == 3       \* Spec: update_agents calls in a run
MaxWalk == 1        \* Spec: ticks a passenger walks to its source node
MaxYields == 3      \* SpecGen: Yield requests sent in a run
MaxAmount == 2      \* SpecGen: largest amount a Yield asks for

(***************************************************************************)
(* Program constants                                                       *)
(***************************************************************************)
\* move_self: let mut move_distance = 804.672, in units of 268.224 m
MoveDistance == 3
\* demand/mod.rs: const TICK_DEMAND: usize = 10
TICK_DEMAND == 10
\* u32::MAX, the distance of a node Dijkstra has not reached; the model checker's
\* integers end at 2^31 - 1, which is as far above every path length
U32Max == 2147483647

(***************************************************************************)
(* Road graph (graph/types.rs AdjacencyList)                               *)
(***************************************************************************)
Nodes == {1, 2, 3}

\* NodeMeta.point, as the abscissa on the line
NodePoint(n) == 2 * (n - 1)

\* edge_map: edge e joins node e and node e + 1 by a straight polyline
EdgeList == [e \in {1, 2} |->
    [start_id |-> e, end_id |-> e + 1, length |-> 2,
     points |-> <<NodePoint(e), NodePoint(e + 1)>>]]

\* adjacency: the edges incident to each node, in the list's order
Adjacency == [n \in Nodes |->
    CASE n = 1 -> <<1>> [] n = 2 -> <<1, 2>> [] n = 3 -> <<2>>]

\* the road graph of the simulation as find_route reads it; the f64 lengths
\* of a graph are held as whole counts of 1/scale
Graph == [node_map |-> Nodes, edge_map |-> EdgeList, adjacency |-> Adjacency,
          scale |-> 1]

Abs(x) == IF x < 0 THEN -x ELSE x

\* bus.rs distance(): xs.hypot(ys) with ys = 0
distance(a, b) == Abs(a - b)

\* waypoints.rs graph_distance(): squared euclidean distance of two nodes
graph_distance(source, dest) ==
    (NodePoint(source) - NodePoint(dest)) * (NodePoint(source) - NodePoint(dest))

(***************************************************************************)
(* Sequence helpers                                                        *)
(***************************************************************************)
Range(s) == {s[i] : i \in 1..Len(s)}

\* Vec::remove(i), 1-based
RemoveAt(s, i) == SubSeq(s, 1, i - 1) \o SubSeq(s, i + 1, Len(s))

RECURSIVE Perms(_)
\* every iteration order of a HashSet / HashMap key set
Perms(S) == IF S = {} THEN {<<>>}
            ELSE UNION {{<<x>> \o p : p \in Perms(S \ {x})} : x \in S}

(***************************************************************************)
(* Passenger status (bus.rs Status, Passenger)                             *)
(***************************************************************************)
Generated == [tag |-> "Generated", n |-> 0]
TravelStart(k) == [tag |-> "TravelStart", n |-> k]
Waiting(k) == [tag |-> "Waiting", n |-> k]
\* OnBus(DateTime): the boarding timestamp is wall-clock time and is left out
OnBus == [tag |-> "OnBus", n |-> 0]
TavelDest(k) == [tag |-> "TavelDest", n |-> k]
Expired == [tag |-> "Expired", n |-> 0]

\* Passenger: walk_start / walk_end stand for the tick counts that
\* set_travel_start / set_travel_end compute from source_pos / dest_pos
NewPassenger(i, s, d, ws, we) ==
    [id |-> i, source_node |-> s, dest_node |-> d, status |-> Generated,
     walk_start |-> ws, walk_end |-> we]

\* Passenger::update
update(p) ==
    CASE p.status.tag \in {"Generated", "Expired"} -> p
      [] p.status.tag = "TravelStart" ->
            IF p.status.n = 0 THEN [p EXCEPT !.status = Waiting(0)]
            ELSE [p EXCEPT !.status = TravelStart(p.status.n - 1)]
      [] p.status.tag = "Waiting" ->
            [p EXCEPT !.status = Waiting((p.status.n + 1) % 256)]
      [] p.status.tag = "OnBus" -> p
      [] p.status.tag = "TavelDest" ->
            IF p.status.n = 0 THEN [p EXCEPT !.status = Expired]
            ELSE [p EXCEPT !.status = TavelDest(p.status.n - 1)]

set_on_bus(p) == [p EXCEPT !.status = OnBus]
set_travel_start(p) == [p EXCEPT !.status = TravelStart(p.walk_start)]
set_travel_end(p) == [p EXCEPT !.status = TavelDest(p.walk_end)]

UpdateAll(s) == [i \in 1..Len(s) |-> update(s[i])]

(***************************************************************************)
(* Waypoints and DirForest (waypoints.rs)                                  *)
(***************************************************************************)
None == [kind |-> "None", node |-> 0]
Passthrough(n) == [kind |-> "Passthrough", node |-> n]
Pickup(n) == [kind |-> "Pickup", node |-> n]
Dropoff(n) == [kind |-> "Dropoff", node |-> n]

\* DirForest::default()
EmptyForest == [roots |-> {}, children |-> <<>>]

\* A plausible slip: the dependent waypoint is filed as a root.
insert_AsRoot(f, parent, child) == [f EXCEPT !.roots = @ \cup {child}]

\* DirForest::insert.  The source writes
\*     self.children.get(&parent).unwrap().insert(child)
\* and no statement of the file creates an entry of `children`, while
\* bus_waypoints files every Dropoff under its Pickup before the Pickup itself
\* is inserted; the entry of a parent is therefore created by its first
\* insert (the behaviour of entry(parent).or_default().insert(child)).
insert(f, parent, child) ==
    IF parent = None
    THEN [f EXCEPT !.roots = @ \cup {child}]
    ELSE IF parent \in DOMAIN f.children
         THEN [f EXCEPT !.children[parent] = @ \cup {child}]
         ELSE [f EXCEPT !.children = @ @@ (parent :> {child})]

\* A plausible slip: the children of a visited waypoint are dropped.
visit_waypoint_NoPromote(f, waypoint) ==
    [roots |-> f.roots \ {waypoint},
     children |-> [w \in DOMAIN f.children \ {waypoint} |-> f.children[w]]]

\* A plausible slip: the children are promoted but their entry is kept.
visit_waypoint_KeepsEntry(f, waypoint) ==
    IF waypoint \in DOMAIN f.children
    THEN [f EXCEPT !.roots = (@ \ {waypoint}) \cup f.children[waypoint]]
    ELSE [f EXCEPT !.roots = @ \ {waypoint}]

\* DirForest::visit_waypoint
visit_waypoint(f, waypoint) ==
    IF waypoint \in DOMAIN f.children
    THEN [roots |-> (f.roots \ {waypoint}) \cup f.children[waypoint],
          children |-> [w \in DOMAIN f.children \ {waypoint} |-> f.children[w]]]
    ELSE [f EXCEPT !.roots = @ \ {waypoint}]

\* DirForest::get_root_nodes
get_root_nodes(f) ==
    [n \in {r.node : r \in f.roots} |-> {r \in f.roots : r.node = n}]

RECURSIVE InsertDropoffs(_, _, _)
\* bus_waypoints, first loop: a root Dropoff for every passenger aboard
InsertDropoffs(f, passengers, i) ==
    IF i > Len(passengers) THEN f
    ELSE InsertDropoffs(insert(f, None, Dropoff(passengers[i].dest_node)),
                        passengers, i + 1)

ValidPending(p) == p.status.tag \in {"Waiting", "TravelStart"}

RECURSIVE InsertPending(_, _, _, _)
\* bus_waypoints, inner loop over assignment[source_node]
InsertPending(f, source_node, waiting, i) ==
    IF i > Len(waiting) THEN f
    ELSE InsertPending(
            IF ValidPending(waiting[i])
            THEN insert(f, Pickup(source_node), Dropoff(waiting[i].dest_node))
            ELSE f,
            source_node, waiting, i + 1)

RECURSIVE InsertSources(_, _, _)
\* bus_waypoints, outer loop over assignment.keys(); the forest is built of
\* sets, so the key order does not show in the result
InsertSources(f, assignment, keys) ==
    IF keys = {} THEN f
    ELSE LET source_node == CHOOSE k \in keys : TRUE
             f1 == InsertPending(f, source_node, assignment[source_node], 1)
             f2 == IF \E i \in 1..Len(assignment[source_node]) :
                          ValidPending(assignment[source_node][i])
                   THEN insert(f1, None, Pickup(source_node))
                   ELSE f1
         IN InsertSources(f2, assignment, keys \ {source_node})

\* bus_waypoints.  An assignment entry that holds no passenger behaves as an
\* absent key everywhere, so the map is a function on all nodes.
bus_waypoints(bus) ==
    InsertSources(InsertDropoffs(EmptyForest, bus.passengers, 1),
                  bus.assignment, DOMAIN bus.assignment)

\* bus_waypoints_with_passenger: the forest of the vehicle with one more,
\* hypothetical, pending passenger
bus_waypoints_with_passenger(bus, passenger) ==
    insert(insert(bus_waypoints(bus), Pickup(passenger.source_node),
                  Dropoff(passenger.dest_node)),
           None, Pickup(passenger.source_node))

\* create_ordering, the scan for best_node: `distance < best_distance` keeps
\* the first minimum in the HashMap's iteration order, which is any minimum
BestNodes(f, last) ==
    LET nodes == DOMAIN get_root_nodes(f)
    IN {n \in nodes : \A m \in nodes : graph_distance(last, n) <= graph_distance(last, m)}

RECURSIVE VisitAll(_, _, _)
VisitAll(f, acts, i) ==
    IF i > Len(acts) THEN f ELSE VisitAll(visit_waypoint(f, acts[i]), acts, i + 1)

RECURSIVE OrderFrom(_, _, _)
OrderFrom(last, f, acc) ==
    IF f.roots = {} THEN {acc}
    ELSE UNION {UNION {OrderFrom(n, VisitAll(f, acts, 1), acc \o acts) :
                         acts \in Perms(get_root_nodes(f)[n])} :
                  n \in BestNodes(f, last)}

\* A plausible slip: the ordering starts empty instead of at the vehicle's
\* locking node.
create_ordering_NoStart(starting_point, waypoints) ==
    OrderFrom(starting_point, waypoints, <<>>)

\* create_ordering: every sequence it can return (the choice among equidistant
\* nodes and the order of the actions of one node follow the hash order)
create_ordering(starting_point, waypoints) ==
    OrderFrom(starting_point, waypoints, <<Passthrough(starting_point)>>)

(***************************************************************************)
(* SpecOrder: bus_waypoints followed by create_ordering, one action per    *)
(* turn of its loops, on every small vehicle state                         *)
(***************************************************************************)
RECURSIVE SeqsUpTo(_, _)
\* the sequences over S of length at most n
SeqsUpTo(S, n) ==
    IF n = 0 THEN {<<>>}
    ELSE LET shorter == SeqsUpTo(S, n - 1)
         IN shorter \cup {Append(s, x) : s \in {t \in shorter : Len(t) = n - 1}, x \in S}

\* a passenger aboard: boarded, so OnBus
AboardPassenger(i, d) == [NewPassenger(i, d, d, 0, 0) EXCEPT !.status = OnBus]

\* a passenger in the assignment map: add_passenger_to_assignment made it
\* TravelStart and update() may have made it Waiting since
PendingPassenger(i, sd) ==
    [NewPassenger(i, sd[1], sd[2], 1, 0) EXCEPT
        !.status = IF i % 2 = 1 THEN TravelStart(1) ELSE Waiting(0)]

OrderBus(dests, pend) ==
    LET all == [i \in 1..Len(pend) |-> PendingPassenger(Len(dests) + i, pend[i])]
    IN [passengers |-> [i \in 1..Len(dests) |-> AboardPassenger(i, dests[i])],
        assignment |-> [n \in Nodes |-> SelectSeq(all, LAMBDA p : p.source_node = n)]]

IdleDyn ==
    /\ buses = <<>> /\ demands = <<>> /\ pid = 0 /\ ticks = 0
    /\ pc = "off" /\ cur = 0 /\ move_distance = 0

IdleGen ==
    /\ g_chan = <<>> /\ g_buffer = <<>> /\ g_queue = <<>> /\ g_started = FALSE
    /\ g_state = "off" /\ g_made = 0 /\ g_sent = 0 /\ g_last = 0 /\ g_main = "off"

IdleOrder ==
    /\ o_bus = [passengers |-> <<>>, assignment |-> [n \in Nodes |-> <<>>]]
    /\ o_start = 1 /\ forest = EmptyForest /\ ordering = <<>>
    /\ last_position = 1 /\ actions = <<>> /\ best_node = 1 /\ o_pc = "off"

IdleSim ==
    /\ s_rx = <<>> /\ s_state = "off" /\ s_speed = 0 /\ s_i = 0
    /\ s_updates = 0 /\ s_analytics = "off"

IdleRoute ==
    /\ r_graph = Graph /\ r_source = 1 /\ r_dest = 1
    /\ r_result = [panic |-> FALSE, path |-> <<>>] /\ r_pc = "off"
    /\ r_waypoints = <<>> /\ r_path = <<>> /\ r_k = 0

IdleStatic ==
    /\ st_time = 0 /\ st_trips = <<>> /\ st_buses = <<>> /\ st_spawns = <<>>
    /\ st_pool = <<>> /\ st_passenger_id = 0 /\ st_draws = <<>> /\ st_pc = "off"

IdlePass == u_first = Generated /\ u_p = NewPassenger(0, 1, 1, 0, 0) /\ u_n = 0 /\ u_pc = "off"

IdleFind == f_in = <<>> /\ f_out = <<>> /\ f_pc = "off"

IdleAgent == a_agent = <<>> /\ a_checks = <<>> /\ a_legs = <<>> /\ a_pc = "off"

IdleMore == IdleSim /\ IdleRoute /\ IdleStatic /\ IdlePass /\ IdleFind /\ IdleAgent

InitOrder ==
    /\ \E dests \in SeqsUpTo(Nodes, MaxAboard), pend \in SeqsUpTo(Nodes \X Nodes, MaxPending) :
            o_bus = OrderBus(dests, pend)
    /\ o_start \in Nodes
    /\ forest = EmptyForest /\ ordering = <<>>
    /\ last_position = o_start /\ actions = <<>> /\ best_node = o_start
    /\ o_pc = "build"
    /\ IdleDyn /\ IdleGen /\ IdleMore

\* bus_waypoints(bus), then create_ordering up to its loop
OrderBuild ==
    /\ o_pc = "build"
    /\ forest' = bus_waypoints(o_bus)
    /\ ordering' = <<Passthrough(o_start)>>
    /\ last_position' = o_start
    /\ o_pc' = "select"
    /\ UNCHANGED <<o_bus, o_start, actions, best_node, dynVars, genVars, moreVars>>

\* create_ordering: one turn of `while !waypoints.roots.is_empty()` up to the
\* choice of best_node
OrderSelect ==
    /\ o_pc = "select" /\ forest.roots # {}
    /\ \E n \in BestNodes(forest, last_position) :
         \E acts \in Perms(get_root_nodes(forest)[n]) :
            /\ best_node' = n
            /\ actions' = acts
    /\ o_pc' = "visit"
    /\ UNCHANGED <<o_bus, o_start, forest, ordering, last_position, dynVars, genVars, moreVars>>

\* create_ordering: one turn of `for action in actions`, and after the last
\* one `last_position = node`
OrderVisit ==
    /\ o_pc = "visit" /\ actions # <<>>
    /\ ordering' = Append(ordering, Head(actions))
    /\ forest' = visit_waypoint(forest, Head(actions))
    /\ actions' = Tail(actions)
    /\ IF Len(actions) = 1
       THEN last_position' = best_node /\ o_pc' = "select"
       ELSE UNCHANGED <<last_position, o_pc>>
    /\ UNCHANGED <<o_bus, o_start, best_node, dynVars, genVars, moreVars>>

\* create_ordering: the loop ends, the ordering is returned
OrderReturn ==
    /\ o_pc = "select" /\ forest.roots = {}
    /\ o_pc' = "done"
    /\ UNCHANGED <<o_bus, o_start, forest, ordering, last_position, actions, best_node,
                   dynVars, genVars, moreVars>>

NextOrder == OrderBuild \/ OrderSelect \/ OrderVisit \/ OrderReturn

SpecOrder == InitOrder /\ [][NextOrder]_vars

\* the passengers pending in a vehicle's assignment map
PendingOf(bus) ==
    UNION {Range(bus.assignment[n]) : n \in DOMAIN bus.assignment}

\* the stepwise loop and the operator used by the controller agree
OrderStepsMatchOperator ==
    o_pc = "done" => ordering \in create_ordering(o_start, bus_waypoints(o_bus))

C17_SecondCallSameSequence ==
    o_pc = "done" =>
        \A second \in create_ordering(o_start, bus_waypoints(o_bus)) : second = ordering

\* create_ordering is straight-line code: it goes on until it returns
SpecOrderLive == SpecOrder /\ WF_vars(NextOrder)

\* every waypoint of a forest, root or child
WaypointsOf(f) == f.roots \cup UNION {f.children[w] : w \in DOMAIN f.children}

Visited(w) == w \in Range(ordering)

HeapTop(heap) ==
    CHOOSE s \in heap : \A t \in heap :
        \/ s.dist < t.dist
        \/ (s.dist = t.dist /\ s.node >= t.node)

\* `length as u32`: the f64 cut to its whole part
as_u32(length, scale) == length \div scale

RECURSIVE Relax(_, _, _, _, _)
\* find_route: `for edge in graph.get_adjacency()[&node]`
Relax(graph, st, edges, i, acc) ==
    IF i > Len(edges) THEN acc
    ELSE LET e == graph.edge_map[edges[i]]
             next == [node |-> IF e.start_id = st.node THEN e.end_id ELSE e.start_id,
                      dist |-> st.dist + as_u32(e.length, graph.scale)]
             next_cost == acc.distances[next.node]
         IN IF next.dist < next_cost
            THEN Relax(graph, st, edges, i + 1,
                       [acc EXCEPT
                          !.heap = @ \cup {next},
                          !.distances = [@ EXCEPT ![next.node] = next.dist],
                          !.prev = [n \in DOMAIN @ \cup {next.node} |->
                                       IF n = next.node THEN st.node ELSE @[n]]])
            ELSE Relax(graph, st, edges, i + 1, acc)

RECURSIVE Dijkstra(_, _, _)
\* find_route: `while let Some(State { node, dist }) = heap.pop()`; indexing
\* the adjacency map with a node it has no entry for panics
Dijkstra(graph, acc, dest) ==
    IF acc.heap = {} THEN acc
    ELSE LET st == HeapTop(acc.heap)
             popped == [acc EXCEPT !.heap = @ \ {st}]
         IN IF st.node = dest THEN popped
            ELSE IF st.dist > acc.distances[st.node] THEN Dijkstra(graph, popped, dest)
            ELSE IF st.node \notin DOMAIN graph.adjacency
                 THEN [popped EXCEPT !.panic = TRUE]
            ELSE Dijkstra(graph, Relax(graph, st, graph.adjacency[st.node], 1, popped), dest)

RECURSIVE WalkBack(_, _, _, _)
\* find_route: the walk along prev, from dest
WalkBack(prev, source, prev_node, path) ==
    IF prev_node \in DOMAIN prev /\ prev_node # source
    THEN WalkBack(prev, source, prev[prev_node], Append(path, prev[prev_node]))
    ELSE path

\* find_route, as whether it panics and the path it returns: the node
\* sequence from dest back along prev.  A node absent from `distances` reads
\* as u32::MAX (or_insert(u32::MAX)).
find_route_run(graph, source, dest) ==
    LET start == [heap |-> {[node |-> source, dist |-> 0]},
                  distances |-> [n \in graph.node_map |-> IF n = source THEN 0 ELSE U32Max],
                  prev |-> (source :> source),
                  panic |-> FALSE]
        end == Dijkstra(graph, start, dest)
    IN [panic |-> end.panic,
        path |-> IF end.panic THEN <<>> ELSE WalkBack(end.prev, source, dest, <<dest>>)]

find_route(graph, source, dest) == find_route_run(graph, source, dest).path

Reverse(s) == [i \in 1..Len(s) |-> s[Len(s) + 1 - i]]

(***************************************************************************)
(* Bus (dyn_controller/bus.rs)                                             *)
(***************************************************************************)
ElEdge(e, prev_node) == [kind |-> "Edge", edge |-> e, node |-> prev_node]
ElNode(n) == [kind |-> "Node", edge |-> 0, node |-> n]

\* Bus::new, for the random node and the random index into its adjacency
NewBus(max_capacity, random_node, random_edge_i) ==
    LET edge == Adjacency[random_node][random_edge_i]
        edge_data == EdgeList[edge]
    IN [max_capacity |-> max_capacity,
        rem_capacity |-> max_capacity,
        passengers |-> <<>>,
        assignment |-> [n \in Nodes |-> <<>>],
        delivered_passengers |-> <<>>,
        events |-> [PassengerPickup |-> 0, PassengerDropoff |-> 0],
        path_waypoints |-> <<>>,
        path_full |-> <<>>,
        current_pos |-> NodePoint(random_node),
        current_el |-> ElEdge(edge, random_node),
        next_node |-> IF edge_data.start_id = random_node
                      THEN edge_data.end_id ELSE edge_data.start_id]

\* Bus::can_assign_more
can_assign_more(bus) == bus.rem_capacity > 0

RECURSIVE BoardLoop(_, _, _)
RECURSIVE BoardLoop_NoCapacityCheck(_, _, _)
RECURSIVE BoardLoop_NoEvent(_, _, _)
\* A plausible slip: boarding does not look at the remaining capacity.
BoardLoop_NoCapacityCheck(bus, node, i) ==
    IF i > Len(bus.assignment[node]) THEN bus
    ELSE BoardLoop_NoCapacityCheck(
            [bus EXCEPT !.assignment[node] = RemoveAt(@, i),
                        !.passengers = Append(@, set_on_bus(bus.assignment[node][i])),
                        !.events.PassengerPickup = @ + 1,
                        !.rem_capacity = IF @ > 0 THEN @ - 1 ELSE 0],
            node, i)

\* A plausible slip: boarding sends no PassengerPickup event.
BoardLoop_NoEvent(bus, node, i) ==
    IF i > Len(bus.assignment[node]) THEN bus
    ELSE IF bus.rem_capacity > 0
         THEN BoardLoop_NoEvent(
                [bus EXCEPT !.assignment[node] = RemoveAt(@, i),
                            !.passengers = Append(@, set_on_bus(bus.assignment[node][i])),
                            !.rem_capacity = @ - 1],
                node, i)
         ELSE BoardLoop_NoEvent(bus, node, i + 1)

\* handle_node, first loop: `while i < passengers.len()`; `events` counts
\* the VehicleAnalyticsEvents sent with this vehicle's id
BoardLoop(bus, node, i) ==
    IF i > Len(bus.assignment[node]) THEN bus
    ELSE IF bus.rem_capacity > 0
         THEN BoardLoop([bus EXCEPT !.assignment[node] = RemoveAt(@, i),
                                    !.passengers = Append(@, set_on_bus(bus.assignment[node][i])),
                                    !.events.PassengerPickup = @ + 1,
                                    !.rem_capacity = @ - 1],
                        node, i)
         ELSE BoardLoop(bus, node, i + 1)

RECURSIVE AlightLoop(_, _, _)
RECURSIVE AlightLoop_NoDelivered(_, _, _)
\* A plausible slip: a passenger getting off is not kept in delivered_passengers.
AlightLoop_NoDelivered(bus, node, i) ==
    IF i > Len(bus.passengers) THEN bus
    ELSE IF bus.passengers[i].dest_node = node
         THEN AlightLoop_NoDelivered([bus EXCEPT !.passengers = RemoveAt(@, i),
                                                 !.events.PassengerDropoff = @ + 1,
                                                 !.rem_capacity = @ + 1],
                                     node, i)
         ELSE AlightLoop_NoDelivered(bus, node, i + 1)

\* handle_node, second loop: `while i < self.passengers.len()`; getting_off
\* is appended to delivered_passengers in the order it was filled
AlightLoop(bus, node, i) ==
    IF i > Len(bus.passengers) THEN bus
    ELSE IF bus.passengers[i].dest_node = node
         THEN AlightLoop([bus EXCEPT !.passengers = RemoveAt(@, i),
                                     !.events.PassengerDropoff = @ + 1,
                                     !.rem_capacity = @ + 1,
                                     !.delivered_passengers =
                                         Append(@, set_travel_end(bus.passengers[i]))],
                         node, i)
         ELSE AlightLoop(bus, node, i + 1)

\* Bus::handle_node
handle_node(bus, node) == AlightLoop(BoardLoop(bus, node, 1), node, 1)

\* Bus::add_passenger_to_assignment
add_passenger_to_assignment(bus, passenger) ==
    [bus EXCEPT !.assignment[passenger.source_node] = Append(@, set_travel_start(passenger))]

RECURSIVE PathLen(_, _)
\* what_if_bus_had_passenger / get_waypoint_path_len: straight-line length
\* of a waypoint sequence, from its i-th waypoint on
PathLen(path, i) ==
    IF i >= Len(path) THEN 0
    ELSE distance(NodePoint(path[i].node), NodePoint(path[i + 1].node)) + PathLen(path, i + 1)

\* Bus::what_if_bus_had_passenger: every length it can return
what_if_bus_had_passenger(bus, passenger) ==
    {PathLen(path, 1) :
        path \in create_ordering(bus.next_node, bus_waypoints_with_passenger(bus, passenger))}

RECURSIVE CreatePathFrom(_, _, _)
\* Bus::create_path, `for waypoint in self.path_waypoints.iter()`
CreatePathFrom(waypoints, i, path) ==
    IF i > Len(waypoints) THEN path
    ELSE IF path = <<>>
         THEN CreatePathFrom(waypoints, i + 1, <<waypoints[i].node>>)
         ELSE CreatePathFrom(waypoints, i + 1,
                path \o Tail(Reverse(find_route(Graph, path[Len(path)], waypoints[i].node))))

\* Bus::create_path
create_path(bus) == [bus EXCEPT !.path_full = CreatePathFrom(bus.path_waypoints, 1, <<>>)]

\* A plausible slip: the ordering starts at the node the vehicle has left.
bus_constructive_FromPrevNode(bus, passenger) ==
    LET b1 == add_passenger_to_assignment(bus, passenger)
    IN {create_path([b1 EXCEPT !.path_waypoints = path]) :
            path \in create_ordering(b1.current_el.node, bus_waypoints(b1))}

\* Bus::constructive: every vehicle state it can leave
bus_constructive(bus, passenger) ==
    LET b1 == add_passenger_to_assignment(bus, passenger)
    IN {create_path([b1 EXCEPT !.path_waypoints = path]) :
            path \in create_ordering(b1.next_node, bus_waypoints(b1))}

\* A plausible slip: the passengers still to be picked up are not updated.
update_passengers_AboardOnly(bus) ==
    [bus EXCEPT !.passengers = UpdateAll(@),
                !.delivered_passengers = UpdateAll(@)]

\* Bus::update_passengers
update_passengers(bus) ==
    [bus EXCEPT !.passengers = UpdateAll(@),
                !.assignment = [n \in Nodes |-> UpdateAll(@[n])],
                !.delivered_passengers = UpdateAll(@)]

\* the first edge of adjacency[node] with an end at `target`, 0 if none
\* (`.iter().find(..)` in move_self)
FindEdge(node, target) ==
    LET adj == Adjacency[node]
        hits == {i \in 1..Len(adj) :
                    EdgeList[adj[i]].start_id = target \/ EdgeList[adj[i]].end_id = target}
    IN IF hits = {} THEN 0
       ELSE adj[CHOOSE i \in hits : \A j \in hits : i <= j]

\* bus.rs point_on_linesegment: |d1 + d2 - len| <= 0.1, exact on integers
point_on_linesegment(pos, start, end) ==
    distance(pos, start) + distance(pos, end) = distance(start, end)

\* bus.rs normalise, on the line
normalise(a) == IF a < 0 THEN -1 ELSE 1

RECURSIVE Segments(_, _, _, _, _)
\* move_self: `for i in 0..line.len() - 1`.  Result: the vehicle, the budget
\* left, has_moved, and whether the function returned inside the loop.
Segments(bus, md, line, i, has_moved) ==
    IF i > Len(line) - 1
    THEN [bus |-> bus, md |-> md, has_moved |-> has_moved, returned |-> FALSE]
    ELSE LET segment_start == line[i]
             segment_end == line[i + 1]
         IN IF point_on_linesegment(bus.current_pos, segment_start, segment_end)
            THEN LET distance_remaining == distance(bus.current_pos, segment_end)
                 IN IF md > distance_remaining
                    THEN Segments([bus EXCEPT !.current_pos = segment_end],
                                  md - distance_remaining, line, i + 1, TRUE)
                    ELSE [bus |-> [bus EXCEPT !.current_pos =
                                        @ + normalise(segment_end - segment_start) * md],
                          md |-> md, has_moved |-> has_moved, returned |-> TRUE]
            ELSE Segments(bus, md, line, i + 1, has_moved)

\* move_self: one turn of `while move_distance > 0.0`.  Result: the vehicle,
\* the budget left, and how the turn ended: "continue" (next turn), "return"
\* or "panic" (unreachable!() / unwrap() on None).
MoveTurn(bus, md) ==
    LET el == bus.current_el
        moving_edge_id == IF el.kind = "Edge" THEN el.edge
                          ELSE FindEdge(el.node, bus.next_node)
    IN IF moving_edge_id = 0
       THEN [bus |-> bus, md |-> md, end |-> "return"]
       ELSE
       LET points == EdgeList[moving_edge_id].points
           next_point == NodePoint(bus.next_node)
       IN IF next_point # points[1] /\ next_point # points[Len(points)]
          THEN [bus |-> bus, md |-> md, end |-> "panic"]
          ELSE
          LET line == IF next_point = points[1] THEN Reverse(points) ELSE points
              seg == Segments(bus, md, line, 1, FALSE)
          IN IF seg.returned \/ ~seg.has_moved
             THEN [bus |-> seg.bus, md |-> seg.md, end |-> "return"]
             ELSE
             \* has_moved and move_distance > 0: the vehicle is at next_node
             LET current_node == bus.next_node
                 b == seg.bus
             IN IF b.path_full = <<>>
                THEN [bus |-> [b EXCEPT !.current_el = ElNode(current_node)],
                      md |-> seg.md, end |-> "return"]
                ELSE
                LET next_node == Head(b.path_full)
                    edge_id == FindEdge(current_node, next_node)
                IN IF edge_id = 0
                   THEN [bus |-> [b EXCEPT !.path_full = Tail(@)],
                         md |-> seg.md, end |-> "panic"]
                   ELSE [bus |-> handle_node(
                                    [b EXCEPT !.path_full = Tail(@),
                                              !.current_el = ElEdge(edge_id, current_node),
                                              !.next_node = next_node],
                                    current_node),
                         md |-> seg.md, end |-> "continue"]

(***************************************************************************)
(* Spec: DynamicController::update_agents, one action per statement or     *)
(* loop turn, in the order the code runs them                              *)
(***************************************************************************)
\* spawn_agent: every vehicle Bus::new can build
NewBuses ==
    UNION {{NewBus(BusCapacity, node, i) : i \in 1..Len(Adjacency[node])} : node \in Nodes}

InitDyn ==
    /\ \E n \in 1..NumBuses : buses \in [1..n -> NewBuses]
    /\ demands = <<>> /\ pid = 0 /\ ticks = 0
    /\ pc = "tick" /\ cur = 0 /\ move_distance = 0
    /\ IdleOrder /\ IdleGen /\ IdleMore

\* the loop over buses moves on: to the next bus, or to the statement `after`
NextBus(after) ==
    IF cur < Len(buses)
    THEN cur' = cur + 1 /\ UNCHANGED pc
    ELSE cur' = 0 /\ pc' = after

\* update_agents: self.demands.iter_mut().for_each(|d| d.update(..))
UpdateDemands ==
    /\ pc = "tick" /\ ticks < MaxTicks
    /\ ticks' = ticks + 1
    /\ demands' = UpdateAll(demands)
    /\ pc' = "move" /\ cur' = 1
    /\ UNCHANGED <<buses, pid, move_distance, ordVars, genVars, moreVars>>

\* move_self up to its loop: update_passengers, and the return on an empty path
MoveSelfEnter ==
    /\ pc = "move"
    /\ buses' = [buses EXCEPT ![cur] = update_passengers(@)]
    /\ IF buses[cur].path_full = <<>>
       THEN NextBus("generate") /\ UNCHANGED move_distance
       ELSE pc' = "loop" /\ move_distance' = MoveDistance /\ UNCHANGED cur
    /\ UNCHANGED <<demands, pid, ticks, ordVars, genVars, moreVars>>

\* move_self: one turn of `while move_distance > 0.0`
MoveSelfLoop ==
    /\ pc = "loop"
    /\ LET r == MoveTurn(buses[cur], move_distance)
       IN /\ buses' = [buses EXCEPT ![cur] = r.bus]
          /\ CASE r.end = "continue" -> move_distance' = r.md /\ UNCHANGED <<pc, cur>>
               [] r.end = "return" ->
                    \* move_self is over: for_each calls it on the next vehicle
                    /\ move_distance' = 0
                    /\ IF cur < Len(buses)
                       THEN cur' = cur + 1 /\ pc' = "move"
                       ELSE cur' = 0 /\ pc' = "generate"
               [] r.end = "panic" -> move_distance' = 0 /\ pc' = "panic" /\ UNCHANGED cur
    /\ UNCHANGED <<demands, pid, ticks, ordVars, genVars, moreVars>>

\* update_agents: one demand of the generated batch becomes a Passenger
\* (demand_to_passenger) and joins the unassigned queue.  The demands drawn
\* start up to MaxWalk ticks of walking from their source node and end at
\* their destination node.
GenerateDemand ==
    /\ pc = "generate" /\ pid < MaxPassengers
    /\ \E s \in Nodes, d \in Nodes, ws \in 0..MaxWalk :
          demands' = Append(demands, NewPassenger(pid + 1, s, d, ws, 0))
    /\ pid' = pid + 1
    /\ UNCHANGED <<buses, ticks, pc, cur, move_distance, ordVars, genVars, moreVars>>

\* update_agents: the batch is exhausted, large_neighbourhood_search starts
GenerateDone ==
    /\ pc = "generate"
    /\ pc' = "destructive" /\ cur' = 1
    /\ UNCHANGED <<buses, demands, pid, ticks, move_distance, ordVars, genVars, moreVars>>

\* A plausible slip: the passengers taken out of the assignment map are not
\* handed back to the caller.
bus_destructive_Forgets(bus, chosen, order) ==
    LET goes(p) == p \notin Range(bus.passengers) /\ p.id \in chosen
    IN [bus |-> [bus EXCEPT !.assignment =
                    [n \in Nodes |-> SelectSeq(bus.assignment[n], LAMBDA p : ~goes(p))]],
        removed |-> <<>>]

\* Bus::destructive for the subset `chosen` of passenger ids on which
\* gen_bool(0.5) comes out true, the map being iterated in `order`
bus_destructive(bus, chosen, order) ==
    LET goes(p) == p \notin Range(bus.passengers) /\ p.id \in chosen
        RECURSIVE Removed(_)
        Removed(k) == IF k > Len(order) THEN <<>>
                      ELSE SelectSeq(bus.assignment[order[k]], goes) \o Removed(k + 1)
    IN [bus |-> [bus EXCEPT !.assignment =
                    [n \in Nodes |-> SelectSeq(bus.assignment[n], LAMBDA p : ~goes(p))]],
        removed |-> Removed(1)]

\* DynamicController::destructive, one turn of `for bus in self.buses`
DestructiveBus ==
    /\ pc = "destructive"
    /\ \E chosen \in SUBSET {p.id : p \in PendingOf(buses[cur])} :
       \E order \in Perms({n \in Nodes : buses[cur].assignment[n] # <<>>}) :
          LET r == bus_destructive(buses[cur], chosen, order)
          IN /\ buses' = [buses EXCEPT ![cur] = r.bus]
             /\ demands' = demands \o r.removed
    /\ NextBus("constructive")
    /\ UNCHANGED <<pid, ticks, move_distance, ordVars, genVars, moreVars>>

\* A plausible slip: the queue is not reset to Generated.
ConstructiveReset_KeepsStatus ==
    /\ pc = "constructive"
    /\ pc' = "insert"
    /\ UNCHANGED <<demands, buses, pid, ticks, cur, move_distance, ordVars, genVars, moreVars>>

\* DynamicController::constructive up to its loop
ConstructiveReset ==
    /\ pc = "constructive"
    /\ demands' = [i \in 1..Len(demands) |-> [demands[i] EXCEPT !.status = Generated]]
    /\ pc' = "insert"
    /\ UNCHANGED <<buses, pid, ticks, cur, move_distance, ordVars, genVars, moreVars>>

\* A plausible slip: `all` for `any` in the loop condition.
CanInsert_AllBuses ==
    demands # <<>> /\ \A i \in 1..Len(buses) : can_assign_more(buses[i])

\* the loop condition of DynamicController::constructive
CanInsert ==
    demands # <<>> /\ \E i \in 1..Len(buses) : can_assign_more(buses[i])

InsertPairs == (1..Len(buses)) \X (1..Len(demands))

\* A plausible slip: the scan keeps the first pair it scores.
IsMinAssignment_First(what_if, pair) == pair = <<1, 1>>

\* whether the scan can leave `pair` in min_assignment: it runs bus by bus,
\* demand by demand, and `<` keeps the earliest least length; each call of
\* what_if_bus_had_passenger returns one of its possible lengths
IsMinAssignment(what_if, pair) ==
    \E len \in what_if[pair] :
        \A other \in InsertPairs \ {pair} :
            LET earlier == \/ other[1] < pair[1]
                           \/ (other[1] = pair[1] /\ other[2] < pair[2])
            IN \E other_len \in what_if[other] :
                  IF earlier THEN len < other_len ELSE len <= other_len

\* self.demands.iter().position(|d| d == demand)
Position(q, demand) == CHOOSE i \in 1..Len(q) : q[i] = demand /\ \A j \in 1..(i - 1) : q[j] # demand

\* DynamicController::constructive, one turn of its while loop.  With
\* min_assignment None the turn changes nothing and the loop runs for ever
\* (pc "spin").
ConstructiveInsert ==
    /\ pc = "insert" /\ CanInsert
    /\ LET what_if == [pr \in InsertPairs |->
                          what_if_bus_had_passenger(buses[pr[1]], demands[pr[2]])]
       IN IF \E pr \in InsertPairs : IsMinAssignment(what_if, pr)
          THEN /\ \E pr \in InsertPairs :
                    /\ IsMinAssignment(what_if, pr)
                    /\ LET index == Position(demands, demands[pr[2]])
                       IN /\ demands' = RemoveAt(demands, index)
                          /\ \E b \in bus_constructive(buses[pr[1]], demands[index]) :
                                buses' = [buses EXCEPT ![pr[1]] = b]
               /\ UNCHANGED pc
          ELSE pc' = "spin" /\ UNCHANGED <<buses, demands>>
    /\ UNCHANGED <<pid, ticks, cur, move_distance, ordVars, genVars, moreVars>>

\* DynamicController::constructive: the loop condition fails, the tick ends
ConstructiveExit ==
    /\ pc = "insert" /\ ~CanInsert
    /\ pc' = "tick"
    /\ UNCHANGED <<buses, demands, pid, ticks, cur, move_distance, ordVars, genVars, moreVars>>

Next ==
    \/ UpdateDemands \/ MoveSelfEnter \/ MoveSelfLoop
    \/ GenerateDemand \/ GenerateDone
    \/ DestructiveBus \/ ConstructiveReset \/ ConstructiveInsert \/ ConstructiveExit

Spec == InitDyn /\ [][Next]_vars

(***************************************************************************)
(* Properties of the dynamic controller                                    *)
(***************************************************************************)
\* a turn of the constructive phase commits a passenger to vehicle i, which
\* had nobody aboard and an empty assignment
CommitsToEmpty(i) ==
    /\ pc = "insert"
    /\ buses[i].passengers = <<>>
    /\ \A n \in Nodes : buses[i].assignment[n] = <<>>
    /\ buses'[i].assignment # buses[i].assignment

C22_CommitsLeastPair ==
    [][(pc = "insert" /\ demands' # demands) =>
          \E i \in DOMAIN buses, k \in DOMAIN demands :
              LET p == demands[k]
              IN /\ \E len \in what_if_bus_had_passenger(buses[i], p) :
                        \A j \in DOMAIN buses, q \in Range(demands) :
                            \E other \in what_if_bus_had_passenger(buses[j], q) : len <= other
                 /\ demands' = RemoveAt(demands, k)
                 /\ buses'[i].assignment =
                        [buses[i].assignment EXCEPT ![p.source_node] =
                            Append(@, set_travel_start(p))]
                 /\ \A j \in DOMAIN buses \ {i} : buses'[j] = buses[j]]_vars

\* C22 witness: with two vehicles and two passengers queued, the scan passed
\* over vehicle 1 and committed a passenger to vehicle 2, whose what-if length
\* for that passenger was strictly shorter than any vehicle 1 could get.
C22_Witness ==
    /\ pc = "insert" /\ Len(buses) = 2 /\ Len(demands) = 1
    /\ PendingOf(buses[1]) = {} /\ buses[2].passengers = <<>>
    /\ \E p \in PendingOf(buses[2]) :
          /\ PendingOf(buses[2]) = {p}
          /\ \A short \in what_if_bus_had_passenger(
                            [buses[2] EXCEPT !.assignment = [n \in Nodes |-> <<>>]], p) :
             \A long \in what_if_bus_had_passenger(buses[1], p) : short < long

\* C24: a passenger who joins the passengers aboard a vehicle was Waiting in
\* that vehicle's assignment map just before; one still in TravelStart is
\* not boarded.
C24_BoardsOnlyWaiting ==
    [][\A i \in DOMAIN buses : \A p \in Range(buses'[i].passengers) :
          (\A q \in Range(buses[i].passengers) : q.id # p.id) =>
              \E q \in PendingOf(buses[i]) : q.id = p.id /\ q.status.tag = "Waiting"]_vars

\* C1: on every vehicle the passengers aboard never exceed max_capacity and
\* rem_capacity is max_capacity minus the number aboard, in every state and
\* so before and after every handle_node call.
C1_CapacityInvariant ==
    \A i \in DOMAIN buses :
        /\ Len(buses[i].passengers) <= buses[i].max_capacity
        /\ buses[i].rem_capacity = buses[i].max_capacity - Len(buses[i].passengers)

\* C1 witness: a vehicle is full and stands on the edge leaving a node where
\* a passenger assigned to it was left waiting by handle_node.
C1_Witness ==
    \E i \in DOMAIN buses :
        /\ Len(buses[i].passengers) = buses[i].max_capacity
        /\ buses[i].current_el.kind = "Edge"
        /\ buses[i].assignment[buses[i].current_el.node] # <<>>

\* C13: for a vehicle with rem_capacity = 0 at a node where passengers
\* assigned to it wait, the boarding loop of handle_node changes nothing: the
\* waiting passengers stay in assignment[node] with their status, passengers
\* and rem_capacity are as before (a pickup event goes with each push onto
\* passengers, so none is sent).
C13_FullBusBoardsNobody ==
    \A i \in DOMAIN buses : \A node \in Nodes :
        (buses[i].rem_capacity = 0 /\ buses[i].assignment[node] # <<>>) =>
            BoardLoop(buses[i], node, 1) = buses[i]

\* C13 witness: a full vehicle has handled a node and left it with its
\* passenger aboard, an assigned passenger still waiting there
C13_Witness ==
    \E i \in DOMAIN buses :
        /\ buses[i].rem_capacity = 0 /\ Len(buses[i].passengers) > 0
        /\ buses[i].current_el.kind = "Edge"
        /\ \E k \in DOMAIN buses[i].assignment[buses[i].current_el.node] :
              buses[i].assignment[buses[i].current_el.node][k].status.tag = "Waiting"
        /\ ticks > 1

\* where passenger `id` is held: a slot of the unassigned queue, of an
\* assignment list, of a passengers list or of a delivered list
Holdings(id) ==
    LET Slots(name, i, n, s) == {<<name, i, n, k>> : k \in {k \in 1..Len(s) : s[k].id = id}}
    IN Slots("demands", 0, 0, demands)
       \cup UNION {Slots("passengers", i, 0, buses[i].passengers) : i \in DOMAIN buses}
       \cup UNION {Slots("delivered", i, 0, buses[i].delivered_passengers) : i \in DOMAIN buses}
       \cup UNION {Slots("assignment", i, n, buses[i].assignment[n]) :
                        i \in DOMAIN buses, n \in Nodes}

\* C2: every passenger ever created is held by exactly one container.
C2_ExactlyOneContainer ==
    \A id \in 1..pid : Cardinality(Holdings(id)) = 1

\* C2 witness: one passenger has been delivered by handle_node and another
\* one, handed back by destructive, is in the unassigned queue.
C2_Witness ==
    /\ \E i \in DOMAIN buses : buses[i].delivered_passengers # <<>>
    /\ \E k \in 1..Len(demands) : demands[k].status.tag \in {"TravelStart", "Waiting"}

\* C3: a turn of destructive leaves the vehicle's passengers list and
\* rem_capacity as they were, takes passengers out of its assignment map only,
\* and appends each of them, once, to the unassigned queue.
C3_DestructiveKeepsAboard ==
    [][pc = "destructive" =>
        LET before == buses[cur]
            after == buses'[cur]
            removed == PendingOf(before) \ PendingOf(after)
            appended == SubSeq(demands', Len(demands) + 1, Len(demands'))
        IN /\ after.passengers = before.passengers
           /\ after.rem_capacity = before.rem_capacity
           /\ after.delivered_passengers = before.delivered_passengers
           /\ PendingOf(after) \subseteq PendingOf(before)
           /\ Len(demands') = Len(demands) + Cardinality(removed)
           /\ SubSeq(demands', 1, Len(demands)) = demands
           /\ Range(appended) = removed
           /\ \A j \in DOMAIN buses \ {cur} : buses'[j] = buses[j]]_vars

\* C3 witness: destructive has handed a pending passenger back to the queue
\* (it still has the status its assignment gave it) while a passenger is aboard.
C3_Witness ==
    /\ pc \in {"destructive", "constructive"}
    /\ \E i \in DOMAIN buses : buses[i].passengers # <<>>
    /\ \E k \in 1..Len(demands) : demands[k].status.tag \in {"TravelStart", "Waiting"}

\* C4: a turn of the loop of constructive commits its passenger to a vehicle
\* that can_assign_more at that moment.
C4_CommitOnlyWithRoom ==
    [][\A i \in DOMAIN buses :
          (pc = "insert" /\ PendingOf(buses'[i]) # PendingOf(buses[i]))
              => can_assign_more(buses[i])]_vars

\* the passengers pending on all vehicles
AllPending == UNION {PendingOf(buses[i]) : i \in DOMAIN buses}

\* C5: a turn of the loop of constructive takes exactly one passenger out of
\* the queue and commits it, so the loop ends after at most len(queue) turns;
\* and the loop is left only with the queue empty or no vehicle with spare
\* capacity (never by running for ever without a commit).
C5_ConstructiveTerminates ==
    [][/\ (pc = "insert" /\ pc' = "insert") =>
            /\ Len(demands') = Len(demands) - 1
            /\ \E p \in Range(demands) :
                  /\ Range(demands') = Range(demands) \ {p}
                  /\ AllPending' = AllPending \cup {set_travel_start(p)}
                  /\ set_travel_start(p) \notin AllPending
       /\ (pc = "insert" /\ pc' # "insert") =>
            /\ pc' = "tick"
            /\ \/ demands = <<>>
               \/ \A i \in DOMAIN buses : buses[i].rem_capacity = 0]_vars

\* C5 witness: the loop was left with a passenger still in the queue, no
\* vehicle having spare capacity.
C5_Witness ==
    /\ pc = "tick" /\ ticks > 0
    /\ demands # <<>>
    /\ \A i \in DOMAIN buses : ~can_assign_more(buses[i])

\* every passenger, wherever it is held
Everyone ==
    Range(demands) \cup AllPending
    \cup UNION {Range(buses[i].passengers) : i \in DOMAIN buses}
    \cup UNION {Range(buses[i].delivered_passengers) : i \in DOMAIN buses}

\* the status of passenger `id`
StatusOf(id) == (CHOOSE p \in Everyone : p.id = id).status

\* the place of a status in Generated, TravelStart, Waiting, OnBus, TavelDest, Expired
Rank(status) ==
    CASE status.tag = "Generated" -> 0
      [] status.tag = "TravelStart" -> 1
      [] status.tag = "Waiting" -> 2
      [] status.tag = "OnBus" -> 3
      [] status.tag = "TavelDest" -> 4
      [] status.tag = "Expired" -> 5

\* C26: in a tick update() is applied once to every passenger there is at
\* its start: to the unassigned queue as the tick's first statement, and to
\* the passengers aboard, pending and delivered of each vehicle when that
\* vehicle's move_self begins, before it moves, each vehicle being entered
\* once, in turn.  No later step of the tick (the movement, the generation of
\* new passengers, LNS) counts a passenger's status up or down.
C26_UpdatedOncePerTick ==
    [][/\ pc = "tick" =>
            /\ demands' = UpdateAll(demands) /\ buses' = buses
            /\ pc' = "move" /\ cur' = 1
       /\ pc = "move" =>
            /\ demands' = demands
            /\ \A i \in DOMAIN buses \ {cur} : buses'[i] = buses[i]
            /\ buses'[cur] =
                 [buses[cur] EXCEPT
                    !.passengers = UpdateAll(@),
                    !.assignment = [n \in Nodes |-> UpdateAll(@[n])],
                    !.delivered_passengers = UpdateAll(@)]
       /\ pc' = "move" => (cur' = IF pc = "tick" THEN 1 ELSE cur + 1)
       /\ (pc \in {"move", "loop"} /\ pc' = "generate") => cur = Len(buses)
       /\ pc \notin {"tick", "move"} =>
            /\ \A p \in Everyone : \A q \in Everyone' :
                  (q.id = p.id /\ q.status.tag = p.status.tag) => q = p
            /\ \A q \in Everyone' :
                  (\A p \in Everyone : p.id # q.id) => q.status = Generated]_vars

\* C26 witness: the vehicles have moved in a tick that began with a passenger
\* delivered and another pending, who has been waiting for a tick since.
C26_Witness ==
    /\ pc = "generate" /\ ticks >= 2
    /\ \E i \in DOMAIN buses : buses[i].delivered_passengers # <<>>
    /\ \E p \in AllPending : p.status = Waiting(1)

\* C28: no step of an LNS round (destructive, constructive) changes a
\* vehicle's current_pos, current_el or next_node, and the path_waypoints and
\* path_full a commit re-derives begin at the vehicle's next_node.
C28_ReplanKeepsLockingNode ==
    [][(pc \in {"destructive", "constructive", "insert"}) =>
          \A i \in DOMAIN buses :
              LET rederived == \/ buses'[i].path_waypoints # buses[i].path_waypoints
                               \/ buses'[i].path_full # buses[i].path_full
                               \/ PendingOf(buses'[i]) \ PendingOf(buses[i]) # {}
              IN /\ buses'[i].current_pos = buses[i].current_pos
                 /\ buses'[i].current_el = buses[i].current_el
                 /\ buses'[i].next_node = buses[i].next_node
                 /\ rederived => Head(buses'[i].path_waypoints) = Passthrough(buses[i].next_node)
                 /\ rederived => Head(buses'[i].path_full) = buses[i].next_node]_vars

\* C28 witness: a vehicle part of the way along an edge, away from the node it
\* left, has just been given a passenger (still TravelStart(1), so committed in
\* this tick), with paths that begin at its next_node.
C28_Witness ==
    /\ pc = "insert" /\ ticks >= 2
    /\ \E i \in DOMAIN buses :
          /\ buses[i].current_el.kind = "Edge"
          /\ buses[i].current_pos # NodePoint(buses[i].current_el.node)
          /\ buses[i].current_pos # NodePoint(buses[i].next_node)
          /\ \E p \in PendingOf(buses[i]) : p.walk_start = 1 /\ p.status = TravelStart(1)
          /\ Head(buses[i].path_full) = buses[i].next_node
          /\ Len(buses[i].path_full) > 1

\* C29: when an LNS round is over, on every vehicle each node with a pending
\* passenger in the assignment map has a Pickup in path_waypoints, and each
\* Pickup in path_waypoints is at a node that has a pending passenger.
C29_WaypointsMatchAssignment ==
    (pc = "tick" /\ ticks >= 1) =>
        \A i \in DOMAIN buses :
            /\ \A n \in Nodes :
                  buses[i].assignment[n] # <<>> => Pickup(n) \in Range(buses[i].path_waypoints)
            /\ \A w \in Range(buses[i].path_waypoints) :
                  w.kind = "Pickup" => buses[i].assignment[w.node] # <<>>

\* C34: at the end of every tick a passenger's status matches the container
\* it is in: Generated in the unassigned queue, TravelStart or Waiting in an
\* assignment map, OnBus aboard, TravelDest or Expired in a delivered list.
C34_StatusMatchesContainer ==
    pc = "tick" =>
        /\ \A i \in DOMAIN demands : demands[i].status.tag = "Generated"
        /\ \A b \in DOMAIN buses :
              /\ \A n \in Nodes : \A i \in DOMAIN buses[b].assignment[n] :
                    buses[b].assignment[n][i].status.tag \in {"TravelStart", "Waiting"}
              /\ \A i \in DOMAIN buses[b].passengers :
                    buses[b].passengers[i].status.tag = "OnBus"
              /\ \A i \in DOMAIN buses[b].delivered_passengers :
                    buses[b].delivered_passengers[i].status.tag \in {"TavelDest", "Expired"}

\* a tick has ended with a passenger left in the queue, a passenger aboard
\* and every vehicle full
C34_Witness ==
    /\ pc = "tick" /\ ticks >= 1
    /\ demands # <<>>
    /\ \E b \in DOMAIN buses : buses[b].passengers # <<>>
    /\ \A b \in DOMAIN buses : ~can_assign_more(buses[b])

\* C39: for every vehicle, the PassengerPickup events it has sent less the
\* PassengerDropoff events it has sent are the passengers aboard, and the
\* PassengerDropoff events are as many as its delivered list is long.
C39_EventsMatchLists ==
    \A b \in DOMAIN buses :
        /\ buses[b].events.PassengerPickup - buses[b].events.PassengerDropoff
                = Len(buses[b].passengers)
        /\ buses[b].events.PassengerDropoff = Len(buses[b].delivered_passengers)

\* a vehicle has delivered one passenger and carries another
C39_Witness ==
    \E b \in DOMAIN buses :
        /\ buses[b].events.PassengerPickup = 2 /\ buses[b].events.PassengerDropoff = 1
        /\ Len(buses[b].passengers) = 1

\* C8: no step moves a passenger back to an earlier status.
C8_StatusOnlyForward ==
    [][\A id \in 1..pid : Rank(StatusOf(id)') >= Rank(StatusOf(id))]_vars

\* C9, on finite runs: with one vehicle and one passenger from A to another
\* node B, once the vehicle ends a tick with no path left to drive (move_self
\* returns at once from then on), the passenger has alighted and is in the
\* delivered list.
C9_DeliveredWhenPathDone ==
    (/\ Len(buses) = 1 /\ pid = 1
     /\ \A p \in Everyone : p.source_node # p.dest_node
     /\ pc = "tick"
     /\ buses[1].path_full = <<>>)
    => /\ buses[1].passengers = <<>>
       /\ Len(buses[1].delivered_passengers) = 1

\* the state C9 cannot leave: one vehicle, out of move_self without a path,
\* its one passenger aboard
Stranded ==
    /\ Len(buses) = 1 /\ pid = 1
    /\ pc # "loop"
    /\ buses[1].path_full = <<>>
    /\ Len(buses[1].passengers) = 1
    /\ PendingOf(buses[1]) = {} /\ demands = <<>>

\* without further demand a stranded passenger stays aboard for good
StrandedForGood ==
    [][(Stranded /\ pid' = pid) =>
            /\ Stranded'
            /\ buses'[1].current_pos = buses[1].current_pos
            /\ StatusOf(1)' = OnBus]_vars

(***************************************************************************)
(* SpecGen: the demand generator thread (simulation/demand/mod.rs) and the *)
(* thread that sends it requests                                           *)
(***************************************************************************)
\* DemandThreadMessage
Yield(amount, time) == [kind |-> "Yield", amount |-> amount, time |-> time]
Stop == [kind |-> "Stop", amount |-> 0, time |-> 0]

\* generate_random_pixel: the k-th sample the generator makes, for `time`
Sample(k, time) == [id |-> k, time |-> time]

\* generate_amount(amount, time), `made` samples having been made before
generate_amount(amount, time, made) == [k \in 1..amount |-> Sample(made + k, time)]

\* amount.saturating_sub(buffer.len())
saturating_sub(a, b) == IF a > b THEN a - b ELSE 0

\* DemandGenerator::start: the channel, the queue and the thread's locals
InitGen ==
    /\ g_chan = <<>> /\ g_buffer = <<>> /\ g_queue = <<>> /\ g_started = FALSE
    /\ g_state = "running" /\ g_made = 0 /\ g_sent = 0 /\ g_last = 0
    /\ g_main = "running"
    /\ IdleOrder /\ IdleDyn /\ IdleMore

\* thread_gen_tx.send(msg) on sync_channel(1): it waits while the slot is
\* taken, and fails once the receiver is gone, which the callers turn into a
\* panic
Send(msg, then) ==
    IF g_state = "running"
    THEN Len(g_chan) < 1 /\ g_chan' = Append(g_chan, msg) /\ g_main' = then
    ELSE g_main' = "panicked" /\ UNCHANGED g_chan

\* DemandGenerator::send_demand_request(amount, time)
SendYield ==
    /\ g_main = "running" /\ g_sent < MaxYields
    /\ \E amount \in 0..MaxAmount : Send(Yield(amount, g_sent + 1), "running")
    /\ g_sent' = g_sent + 1
    /\ UNCHANGED <<g_buffer, g_queue, g_started, g_state, g_made, g_last, ordVars, dynVars, moreVars>>

\* DemandGenerator::shutdown
SendStop ==
    /\ g_main = "running"
    /\ Send(Stop, "done")
    /\ UNCHANGED <<g_buffer, g_queue, g_started, g_state, g_made, g_sent, g_last, ordVars, dynVars, moreVars>>

\* the Yield arm of the thread's match: what it leaves in the thread's state,
\* buffer.drain(0..amount) panicking when amount > buffer.len()
YieldArm(amount, time) ==
    LET diff == saturating_sub(amount, Len(g_buffer))
        cleared == IF diff = 0 THEN <<>> ELSE g_buffer
        filled == cleared \o generate_amount(diff, time, g_made)
    IN IF amount > Len(filled)
       THEN [state |-> "panicked", made |-> g_made + diff, buffer |-> filled,
             queue |-> g_queue, started |-> g_started]
       ELSE [state |-> "running", made |-> g_made + diff,
             buffer |-> SubSeq(filled, amount + 1, Len(filled)),
             queue |-> g_queue \o SubSeq(filled, 1, amount), started |-> TRUE]

\* the thread's loop, rx.try_recv() = Ok(Yield(amount, time))
GenYield ==
    /\ g_state = "running" /\ g_chan # <<>> /\ Head(g_chan).kind = "Yield"
    /\ LET r == YieldArm(Head(g_chan).amount, Head(g_chan).time)
       IN /\ g_state' = r.state /\ g_made' = r.made /\ g_buffer' = r.buffer
          /\ g_queue' = r.queue /\ g_started' = r.started
    /\ g_last' = Head(g_chan).time
    /\ g_chan' = Tail(g_chan)
    /\ UNCHANGED <<g_sent, g_main, ordVars, dynVars, moreVars>>

\* A plausible slip: the Stop arm takes the message and goes round the loop
\* again instead of breaking out of it.
GenStop_Ignored ==
    /\ g_state = "running" /\ g_chan # <<>> /\ Head(g_chan).kind = "Stop"
    /\ g_chan' = Tail(g_chan)
    /\ UNCHANGED <<g_state, g_buffer, g_queue, g_started, g_made, g_sent, g_last, g_main,
                   ordVars, dynVars, moreVars>>

\* the thread's loop, rx.try_recv() = Ok(Stop)
GenStop ==
    /\ g_state = "running" /\ g_chan # <<>> /\ Head(g_chan).kind = "Stop"
    /\ g_state' = "stopped"
    /\ g_chan' = Tail(g_chan)
    /\ UNCHANGED <<g_buffer, g_queue, g_started, g_made, g_sent, g_last, g_main, ordVars, dynVars, moreVars>>

\* A plausible slip: the idle arm does not wait for the first Yield.
GenEmpty_BeforeStart ==
    /\ g_state = "running" /\ g_chan = <<>>
    /\ IF Len(g_buffer) < (9 * TICK_DEMAND) \div 10
       THEN /\ g_buffer' = Append(g_buffer, Sample(g_made + 1, g_last))
            /\ g_made' = g_made + 1
       ELSE UNCHANGED <<g_buffer, g_made>>
    /\ UNCHANGED <<g_chan, g_queue, g_started, g_state, g_sent, g_last, g_main, ordVars, dynVars, moreVars>>

\* the thread's loop, rx.try_recv() = Err(Empty): one sample is made ahead
\* while fewer than 9 * TICK_DEMAND / 10 are buffered.  (Err(Disconnected)
\* cannot happen: the thread's own demand_gen_ref keeps the sender alive.)
GenEmpty ==
    /\ g_state = "running" /\ g_chan = <<>>
    /\ IF g_started /\ Len(g_buffer) < (9 * TICK_DEMAND) \div 10
       THEN /\ g_buffer' = Append(g_buffer, Sample(g_made + 1, g_last))
            /\ g_made' = g_made + 1
       ELSE UNCHANGED <<g_buffer, g_made>>
    /\ UNCHANGED <<g_chan, g_queue, g_started, g_state, g_sent, g_last, g_main, ordVars, dynVars, moreVars>>

NextGen == SendYield \/ SendStop \/ GenYield \/ GenStop \/ GenEmpty

SpecGen == InitGen /\ [][NextGen]_vars

\* C10: the thread handles a Yield(amount, time), with any number of samples
\* buffered, by making max(0, amount - buffered) new samples and appending
\* exactly `amount` demands to the shared queue, and it keeps running.
C10_YieldAppendsAmount ==
    [][(g_state = "running" /\ g_chan # <<>> /\ Head(g_chan).kind = "Yield") =>
          LET amount == Head(g_chan).amount
              buffered == Len(g_buffer)
          IN /\ g_state' = "running"
             /\ g_made' - g_made = (IF amount > buffered THEN amount - buffered ELSE 0)
             /\ Len(g_queue') = Len(g_queue) + amount
             /\ SubSeq(g_queue', 1, Len(g_queue)) = g_queue]_vars

\* the spawned thread keeps going round its loop
SpecGenLive == SpecGen /\ WF_vars(GenYield \/ GenStop \/ GenEmpty)

C30_LookAheadBounded ==
    [][/\ Len(g_buffer') <= 9
       /\ (g_state = "running" /\ g_chan = <<>> /\ g_buffer' # g_buffer) =>
            /\ g_started /\ Len(g_buffer) < 9
            /\ Len(g_buffer') = Len(g_buffer) + 1 /\ g_made' = g_made + 1
       /\ ~g_started' => (g_buffer' = <<>> /\ g_made' = 0)]_vars

\* C30 witness: the idle thread has filled its buffer to 9 samples.
C30_Witness == g_state = "running" /\ g_chan = <<>> /\ Len(g_buffer) = 9

(***************************************************************************)
(* SpecSim: the orchestrator's loop (simulation/mod.rs), the threads that  *)
(* send it control messages and receive its analytics, and the demand      *)
(* generator thread it shuts down.  The active controller is reduced to    *)
(* the number of update_agents calls it has completed and to whether a     *)
(* call sends analytics events.                                            *)
(***************************************************************************)
MaxCtl == 2         \* control messages pending at once
MaxSimTicks == 3    \* ticks of one run

InitialSpeed == 100     \* self.speed = 100
StartMinute == 300      \* NaiveTime::from_hms(5, 0, 0)
LastMinute == 1380      \* NaiveTime::from_hms(23, 0, 0)

\* SimulationMessage
ShutdownThread == [kind |-> "ShutdownThread", state |-> "", speed |-> 0]
ChangeState(state) == [kind |-> "ChangeState", state |-> state, speed |-> 0]
ChangeSpeed(speed) == [kind |-> "ChangeSpeed", state |-> "", speed |-> speed]

SimulationState == {"Stopped", "Paused", "Running"}

SimulationMessage ==
    {ShutdownThread} \cup {ChangeState(st) : st \in SimulationState}
        \cup {ChangeSpeed(ms) : ms \in {50, InitialSpeed}}

\* Simulation::init, DemandGenerator::start
InitSim ==
    /\ s_rx = <<>> /\ s_state = "Paused" /\ s_speed = InitialSpeed
    /\ s_i = StartMinute /\ s_updates = 0 /\ s_analytics = "open"
    /\ g_chan = <<>> /\ g_buffer = <<>> /\ g_queue = <<>> /\ g_started = FALSE
    /\ g_state = "running" /\ g_made = 0 /\ g_sent = 0 /\ g_last = 0
    /\ g_main = "running"
    /\ IdleOrder /\ IdleDyn /\ IdleRoute /\ IdleStatic /\ IdlePass /\ IdleFind /\ IdleAgent

\* send_analytics(analytics, event): tx.send fails once the receiver is gone,
\* and the failure is turned into a panic
send_analytics(analytics) == IF analytics = "closed" THEN "panic" ELSE "ok"

\* rx.try_recv(): the oldest pending message, if there is one
try_recv(rx) ==
    IF rx = <<>> THEN [got |-> <<>>, rest |-> rx]
    ELSE [got |-> <<Head(rx)>>, rest |-> Tail(rx)]

\* handle_message(msg) on the fields it writes; `shutdown` tells whether
\* demand_generator.shutdown() is called
handle_message_KeepsState(msg, sim) ==
    CASE msg.kind = "ShutdownThread" -> [sim EXCEPT !.shutdown = TRUE]
      [] msg.kind = "ChangeState" -> [sim EXCEPT !.state = msg.state]
      [] msg.kind = "ChangeSpeed" -> [sim EXCEPT !.speed = msg.speed]

handle_message(msg, sim) ==
    CASE msg.kind = "ShutdownThread" -> [sim EXCEPT !.state = "Stopped", !.shutdown = TRUE]
      [] msg.kind = "ChangeState" -> [sim EXCEPT !.state = msg.state]
      [] msg.kind = "ChangeSpeed" -> [sim EXCEPT !.speed = msg.speed]

\* the head of the loop: one try_recv, and handle_message if it got a message
Handled ==
    LET r == try_recv(s_rx)
        sim == [state |-> s_state, speed |-> s_speed, shutdown |-> FALSE]
    IN [rest |-> r.rest,
        sim |-> IF r.got = <<>> THEN sim ELSE handle_message(r.got[1], sim)]

\* what the head of the loop leaves: the channel, the speed, and the Stop sent
\* to the generator by shutdown(); `then` is where the loop goes on
LoopHead(then) ==
    /\ g_main = "running"
    /\ s_rx' = Handled.rest /\ s_speed' = Handled.sim.speed
    /\ IF Handled.sim.shutdown THEN Send(Stop, then)
       ELSE g_main' = then /\ UNCHANGED g_chan
    /\ UNCHANGED <<g_buffer, g_queue, g_started, g_state, g_made, g_sent, g_last,
                   s_analytics, ordVars, dynVars, routeVars, staticVars, passVars, findVars, agentVars>>

\* SimulationState::Stopped => break
SimBreak ==
    /\ Handled.sim.state = "Stopped"
    /\ LoopHead("done")
    /\ s_state' = "Stopped"
    /\ UNCHANGED <<s_i, s_updates>>

\* SimulationState::Paused => {}
SimPaused ==
    /\ Handled.sim.state = "Paused"
    /\ LoopHead("running")
    /\ s_state' = "Paused"
    /\ UNCHANGED <<s_i, s_updates>>

AfterTick_NeverStops(i) == "Running"

\* `if self.i.time() > NaiveTime::from_hms(23, 0, 0)`: the state a completed
\* tick leaves
AfterTick(i) == IF i > LastMinute THEN "Stopped" ELSE "Running"

\* SimulationState::Running: tick() (the clock, then the controller's
\* update_agents, which may send analytics events), send_state, the TickTime
\* event, the sleep, and the end of the day.  `states` are the run states
\* the arm is taken in, `last` the clock the model stops ticking at.
TickIn(states, last) ==
    /\ Handled.sim.state \in states
    /\ s_i < last
    /\ s_i' = s_i + 1
    /\ \E sends \in BOOLEAN :
          IF sends /\ send_analytics(s_analytics) = "panic"
          THEN /\ LoopHead("panicked")
               /\ s_state' = "Running" /\ s_updates' = s_updates
          ELSE /\ s_updates' = s_updates + 1
               /\ IF send_analytics(s_analytics) = "panic"
                  THEN LoopHead("panicked") /\ s_state' = "Running"
                  ELSE /\ LoopHead("running")
                       /\ s_state' = AfterTick(s_i')

SimTick_WhilePaused == TickIn({"Running", "Paused"}, StartMinute + MaxSimTicks)

SimTick == TickIn({"Running"}, StartMinute + MaxSimTicks)

\* another thread's tx.send(msg)
GuiSend ==
    /\ Len(s_rx) < MaxCtl
    /\ \E msg \in SimulationMessage : s_rx' = Append(s_rx, msg)
    /\ UNCHANGED <<s_state, s_speed, s_i, s_updates, s_analytics, genVars, ordVars, dynVars, routeVars, staticVars, passVars, findVars, agentVars>>

\* the analytics thread ends and drops its Receiver
AnalyticsDrop ==
    /\ s_analytics = "open"
    /\ s_analytics' = "closed"
    /\ UNCHANGED <<s_rx, s_state, s_speed, s_i, s_updates, genVars, ordVars, dynVars, routeVars, staticVars, passVars, findVars, agentVars>>

NextSim ==
    SimBreak \/ SimPaused \/ SimTick \/ GuiSend \/ AnalyticsDrop \/ GenStop \/ GenEmpty

SpecSim == InitSim /\ [][NextSim]_vars

\* C11: handling ShutdownThread sets the state to Stopped, sends Stop to the
\* demand generator and ends the loop in that same iteration, without a tick;
\* and once the loop has ended no tick runs.
C11_ShutdownStopsLoop ==
    [][/\ (g_main = "running" /\ s_rx # <<>> /\ Head(s_rx) = ShutdownThread
              /\ s_rx' = Tail(s_rx)) =>
            /\ s_state' = "Stopped"
            /\ g_chan' = Append(g_chan, Stop)
            /\ g_main' = "done"
            /\ s_i' = s_i /\ s_updates' = s_updates
       /\ g_main # "running" => (s_i' = s_i /\ s_updates' = s_updates)]_vars

\* the loop ended by ShutdownThread after some ticks, the generator stopped
C11_Witness ==
    /\ g_main = "done" /\ s_state = "Stopped" /\ g_state = "stopped"
    /\ s_i > StartMinute

\* C12: every message pending at the top of an iteration is handled before
\* the run state is looked at: an iteration that runs a tick leaves no
\* message behind.
C12_TickLeavesNoMessage ==
    [][s_i' # s_i => s_rx' = <<>>]_vars

\* C32: while the state is Paused no tick runs: the clock and the
\* controller's update count stay as they are in every step but the one that
\* handles a ChangeState(Running) message.
C32_PausedRunsNoTick ==
    [][(s_state = "Paused"
            /\ ~(s_rx # <<>> /\ Head(s_rx) = ChangeState("Running") /\ s_rx' = Tail(s_rx)))
          => (s_i' = s_i /\ s_updates' = s_updates)]_vars

\* paused in the middle of a run, a message pending, the loop alive
C32_Witness ==
    /\ s_state = "Paused" /\ g_main = "running"
    /\ s_i > StartMinute /\ s_updates > 0
    /\ s_rx # <<>> /\ Head(s_rx) = ChangeSpeed(50)

\* C14: a tick whose analytics send fails on a closed channel completes: the
\* loop goes on and the controller has done its update.
C14_ClosedChannelTickCompletes ==
    [][(s_i' # s_i /\ s_analytics = "closed") =>
            (g_main' = "running" /\ s_updates' = s_updates + 1)]_vars

(***************************************************************************)
(* SpecDay: the orchestrator's loop over a whole day, from 05:00 until the *)
(* clock has passed 23:00 and beyond, with at most MaxDayCtl control       *)
(* messages pending and none sent once the clock is MaxLate minutes past   *)
(* 23:00.                                                                  *)
(***************************************************************************)
MaxDayCtl == 1      \* control messages pending at once
MaxLate == 3        \* minutes past 23:00 after which nothing more is sent
DayEnd == 1440      \* the model follows the clock no further than midnight

DayTick == TickIn({"Running"}, DayEnd)

\* another thread's tx.send(msg)
DayGuiSend ==
    /\ Len(s_rx) < MaxDayCtl /\ s_i < LastMinute + MaxLate
    /\ \E msg \in SimulationMessage : s_rx' = Append(s_rx, msg)
    /\ UNCHANGED <<s_state, s_speed, s_i, s_updates, s_analytics, genVars, ordVars, dynVars,
                   routeVars, staticVars, passVars, findVars, agentVars>>

DayLoop == SimBreak \/ SimPaused \/ DayTick

NextDay == DayLoop \/ DayGuiSend \/ AnalyticsDrop \/ GenStop \/ GenEmpty

SpecDay == InitSim /\ [][NextDay]_vars

\* the orchestrator's thread and the generator's thread keep running
SpecDayLive == SpecDay /\ WF_vars(DayLoop) /\ WF_vars(GenStop \/ GenEmpty)

\* C33: Stopped is final: once the state is Stopped, however it came to be,
\* no tick runs any more.
C33_StoppedIsTerminal ==
    [][s_state = "Stopped" => (s_i' = s_i /\ s_updates' = s_updates)]_vars

\* C36: a run ends.  Every tick moves the clock by one minute; the tick
\* that takes the clock past 23:00 leaves the state Stopped, and it is tick
\* number 1081 after 05:00 at the latest; a loop whose state is Stopped ends
\* unless a message changes the state first; and the loop cannot go on for
\* ever with the state Running.
C36_RunTerminates ==
    /\ [][/\ s_i' # s_i => s_i' = s_i + 1
          /\ (s_i' # s_i /\ g_main' = "running" /\ s_i' > LastMinute) => s_state' = "Stopped"
          /\ (s_i' # s_i /\ s_i' <= LastMinute + 1) =>
                (s_i' - StartMinute <= 1081 /\ s_updates' <= 1081)]_vars
    /\ (s_state = "Stopped" /\ g_main = "running") ~> (g_main = "done" \/ s_state # "Stopped")
    /\ []<>(g_main # "running" \/ s_state # "Running")

\* the loop has ended after the 1081st tick, which took the clock to 23:01
C36_Witness ==
    /\ g_main = "done" /\ s_state = "Stopped"
    /\ s_i = LastMinute + 1 /\ s_updates = 1081

\* C35: however the orchestrator's loop has ended, the demand generator
\* thread ends too.
C35_LoopExitStopsGenerator ==
    (g_main = "done") ~> (g_state = "stopped")

(***************************************************************************)
(* SpecRoute: find_route called once, on any graph of up to MaxRouteNodes  *)
(* nodes with at most one edge per pair of nodes, lengths 0.5 or 1.0       *)
(***************************************************************************)
MaxRouteNodes == 4
MaxWaypoints == 3

RouteNodes == 1..MaxRouteNodes

\* the pairs of nodes an edge may join; an edge's id is the place of its pair
RoutePairs ==
    LET pairs == {pq \in RouteNodes \X RouteNodes : pq[1] < pq[2]}
        place(pq) == Cardinality({o \in pairs :
                        o[1] < pq[1] \/ (o[1] = pq[1] /\ o[2] <= pq[2])})
    IN [i \in 1..Cardinality(pairs) |-> CHOOSE pq \in pairs : place(pq) = i]

\* bind_adjacencylist: node_map keeps every node, adjacency gets an entry for
\* the two ends of every edge, filled in the order edge_map is iterated in
bind_adjacencylist(lengths, order) ==
    LET edge_map == [id \in DOMAIN lengths |->
                        [start_id |-> RoutePairs[id][1], end_id |-> RoutePairs[id][2],
                         length |-> lengths[id]]]
        ends(id) == {edge_map[id].start_id, edge_map[id].end_id}
    IN [node_map |-> RouteNodes,
        edge_map |-> edge_map,
        adjacency |-> [n \in UNION {ends(id) : id \in DOMAIN lengths} |->
                          SelectSeq(order, LAMBDA id : n \in ends(id))],
        scale |-> 2]

InitRoute ==
    /\ \E ids \in SUBSET DOMAIN RoutePairs : \E lengths \in [ids -> {1, 2}] :
       \E backwards \in BOOLEAN :
          LET up == SelectSeq([i \in DOMAIN RoutePairs |-> i], LAMBDA id : id \in ids)
          IN r_graph = bind_adjacencylist(lengths, IF backwards THEN Reverse(up) ELSE up)
    /\ \/ /\ r_pc = "call"
          /\ r_source \in RouteNodes /\ r_dest \in RouteNodes
          /\ r_waypoints = <<>>
       \/ /\ r_pc = "path"
          /\ r_source = 1 /\ r_dest = 1
          /\ \E nodes \in SeqsUpTo(RouteNodes, MaxWaypoints) :
                /\ nodes # <<>>
                /\ r_waypoints = [i \in DOMAIN nodes |->
                                    IF i = 1 THEN Passthrough(nodes[i]) ELSE Pickup(nodes[i])]
    /\ r_result = [panic |-> FALSE, path |-> <<>>]
    /\ r_path = <<>> /\ r_k = 1
    /\ IdleOrder /\ IdleDyn /\ IdleGen /\ IdleSim /\ IdleStatic /\ IdlePass /\ IdleFind /\ IdleAgent

\* find_route(&graph, source, dest)
RouteCall ==
    /\ r_pc = "call"
    /\ r_result' = find_route_run(r_graph, r_source, r_dest)
    /\ r_pc' = IF r_result'.panic THEN "panicked" ELSE "returned"
    /\ UNCHANGED <<r_graph, r_source, r_dest, r_waypoints, r_path, r_k,
                   ordVars, dynVars, genVars, simVars, staticVars, passVars, findVars, agentVars>>

\* Bus::create_path on r_graph, one turn of
\* `for waypoint in self.path_waypoints.iter()`; find_route may panic
PathTurn ==
    /\ r_pc = "path" /\ r_k <= Len(r_waypoints)
    /\ LET waypoint == r_waypoints[r_k]
       IN IF r_path = <<>>
          THEN r_path' = <<waypoint.node>> /\ UNCHANGED r_pc
          ELSE LET subroute == find_route_run(r_graph, r_path[Len(r_path)], waypoint.node)
               IN IF subroute.panic
                  THEN r_pc' = "path_panicked" /\ UNCHANGED r_path
                  ELSE r_path' = r_path \o Tail(Reverse(subroute.path)) /\ UNCHANGED r_pc
    /\ r_k' = r_k + 1
    /\ UNCHANGED <<r_graph, r_source, r_dest, r_result, r_waypoints,
                   ordVars, dynVars, genVars, simVars, staticVars, passVars, findVars, agentVars>>

\* Bus::create_path: the loop is over, self.path_full = path
PathDone ==
    /\ r_pc = "path" /\ r_k > Len(r_waypoints)
    /\ r_pc' = "created"
    /\ UNCHANGED <<r_graph, r_source, r_dest, r_result, r_waypoints, r_path, r_k,
                   ordVars, dynVars, genVars, simVars, staticVars, passVars, findVars, agentVars>>

NextRoute == RouteCall \/ PathTurn \/ PathDone

SpecRoute == InitRoute /\ [][NextRoute]_vars

\* the edges of r_graph joining a and b
EdgesJoining(a, b) ==
    {id \in DOMAIN r_graph.edge_map :
        {r_graph.edge_map[id].start_id, r_graph.edge_map[id].end_id} = {a, b}}

\* the least length (in 1/scale) of a path of at most k edges from a to b,
\* U32Max when there is none
RECURSIVE MinLength(_, _, _)
MinLength(a, b, k) ==
    IF a = b THEN 0
    ELSE IF k = 0 THEN U32Max
    ELSE LET ends(id) == {r_graph.edge_map[id].start_id, r_graph.edge_map[id].end_id}
             via == {[id |-> id, n |-> n] : id \in DOMAIN r_graph.edge_map, n \in RouteNodes}
             to == {[dist |-> MinLength(a, v.n, k - 1), length |-> r_graph.edge_map[v.id].length] :
                        v \in {w \in via : ends(w.id) = {w.n, b} /\ w.n # b}}
             best == {t.dist + t.length : t \in {u \in to : u.dist < U32Max}}
         IN IF best = {} THEN U32Max ELSE CHOOSE v \in best : \A w \in best : v <= w

Reachable(a, b) == MinLength(a, b, MaxRouteNodes - 1) < U32Max

\* the length (in 1/scale) of a node sequence whose neighbours are joined
RECURSIVE RealLength(_)
RealLength(route) ==
    IF Len(route) < 2 THEN 0
    ELSE r_graph.edge_map[CHOOSE id \in EdgesJoining(route[1], route[2]) : TRUE].length
            + RealLength(Tail(route))

\* C15: for source and dest joined by a path, the sequence find_route returns
\* starts at source, ends at dest, steps along edges, and is as long as the
\* shortest path from source to dest.
C15_ShortestSourceToDest ==
    (r_pc = "returned" /\ Reachable(r_source, r_dest)) =>
        LET path == r_result.path
        IN /\ path[1] = r_source /\ path[Len(path)] = r_dest
           /\ \A i \in 1..Len(path) - 1 : EdgesJoining(path[i], path[i + 1]) # {}
           /\ RealLength(path) = MinLength(r_source, r_dest, MaxRouteNodes - 1)

\* C16: find_route does not panic; the walk along prev ends at source
\* exactly when dest is reachable, and for an unreachable dest the returned
\* sequence does not hold source.
C16_NoPanicFailureRecognisable ==
    /\ r_pc # "panicked"
    /\ r_pc = "returned" =>
          LET path == r_result.path
          IN /\ path[Len(path)] = r_source <=> Reachable(r_source, r_dest)
             /\ ~Reachable(r_source, r_dest) => \A i \in DOMAIN path : path[i] # r_source

\* whether the nodes of waypoints k, k + 1, .. are met in that order in
\* `path` from place `from` on (waypoints at the same node may share a place)
RECURSIVE Embeds(_, _, _, _)
Embeds(waypoints, k, path, from) ==
    \/ k > Len(waypoints)
    \/ \E j \in from..Len(path) :
          path[j] = waypoints[k].node /\ Embeds(waypoints, k + 1, path, j)

\* C27: the path_full create_path leaves starts at the first waypoint's node,
\* meets the nodes of path_waypoints in their order, has no two equal
\* neighbours, and every two neighbours are joined by an edge of the graph.
C27_PathFollowsWaypoints ==
    r_pc = "created" =>
        /\ r_path[1] = r_waypoints[1].node
        /\ Embeds(r_waypoints, 1, r_path, 1)
        /\ \A i \in 1..Len(r_path) - 1 :
              r_path[i] # r_path[i + 1] /\ EdgesJoining(r_path[i], r_path[i + 1]) # {}

(***************************************************************************)
(* SpecStatic: StaticController::update_agents, tick after tick.  Times    *)
(* are counted in half minutes, places on a line in minutes of walk.  The  *)
(* vehicles' movement is reduced to who is aboard: should_get_on and the   *)
(* stop checks a vehicle makes are left open.                              *)
(***************************************************************************)
MaxTrips == 2
MaxStaticTicks == 3
MaxStaticPassengers == 2
MaxBatch == 2

Minute == 2             \* chrono::Duration::minutes(1)
WalkMinutes == 15       \* the acceptance filter's 15-minute walk

\* the clock of a run before its first tick
RunStart == Minute * StartMinute

\* network_data.stops: stop id -> position
StopPoint == <<0, 10>>

\* Demand(source, dest, _)
Demand(source, dest) == [source |-> source, dest |-> dest]

\* generate_random_pixel: any two points of the map
Demands == {Demand(source, dest) : source \in {8, 25, 26}, dest \in {0, 26}}

\* the acceptance filter of the generator: both ends of the sample within
\* the walk limit of some stop
Accept_SourceOnly(demand) ==
    \E stop \in DOMAIN StopPoint : distance(StopPoint[stop], demand.source) <= WalkMinutes

Accept(demand) ==
    /\ \E stop \in DOMAIN StopPoint : distance(StopPoint[stop], demand.source) <= WalkMinutes
    /\ \E stop \in DOMAIN StopPoint : distance(StopPoint[stop], demand.dest) <= WalkMinutes

\* generate_scaled_amount(.., Err(network_data)): of the samples drawn, with
\* the retries, those the filter accepts
generate_scaled_amount(draws) == SelectSeq(draws, Accept)

\* closest_stop_to_point: the stops at the least (squared) distance; which
\* of several the scan keeps is up to the HashMap's order
closest_stop_to_point(point) ==
    {stop \in DOMAIN StopPoint : \A other \in DOMAIN StopPoint :
        distance(StopPoint[stop], point) * distance(StopPoint[stop], point)
            <= distance(StopPoint[other], point) * distance(StopPoint[other], point)}

\* demand_to_passenger: always Some(BusPassenger); the instructions of
\* basic_route_finding are left out
demand_to_passenger(demand, id) ==
    {[id |-> id, source_pos |-> demand.source, source_stop |-> source_bus_stop,
      dest_pos |-> demand.dest, dest_stop |-> destination_bus_stop,
      status |-> "Generated"] :
        source_bus_stop \in closest_stop_to_point(demand.source),
        destination_bus_stop \in closest_stop_to_point(demand.dest)}

\* StaticAgent::new
StaticAgent(trip_id) == [trip_id |-> trip_id, status |-> "Unactive", passengers |-> <<>>]

InitStatic ==
    /\ st_time = RunStart
    /\ \E n \in 1..MaxTrips :
          st_trips \in [1..n -> (RunStart - 1)..(RunStart + Minute * MaxStaticTicks)]
    /\ st_buses = <<>>
    /\ st_spawns = [trip \in DOMAIN st_trips |-> 0]
    /\ st_pool = <<>> /\ st_passenger_id = 0 /\ st_draws = <<>>
    /\ st_pc = "spawn"
    /\ IdleOrder /\ IdleDyn /\ IdleGen /\ IdleSim /\ IdleRoute /\ IdlePass /\ IdleFind /\ IdleAgent

\* Simulation::tick's step of the clock, then update_agents: "spawn any
\* agents which will be starting this tick"
StaticSpawn ==
    /\ st_pc = "spawn" /\ st_time < RunStart + Minute * MaxStaticTicks
    /\ st_time' = st_time + Minute
    /\ LET starting == {trip \in DOMAIN st_trips :
                            /\ st_time' - st_trips[trip] >= 0
                            /\ st_time' - st_trips[trip] < Minute}
       IN /\ st_buses' = [trip \in DOMAIN st_buses \cup starting |->
                            IF trip \in starting THEN StaticAgent(trip) ELSE st_buses[trip]]
          /\ st_spawns' = [trip \in DOMAIN st_trips |->
                            IF trip \in starting THEN st_spawns[trip] + 1 ELSE st_spawns[trip]]
    /\ st_pc' = "generate"
    /\ UNCHANGED <<st_trips, st_pool, st_passenger_id, st_draws,
                   ordVars, dynVars, genVars, simVars, routeVars, passVars, findVars, agentVars>>

RECURSIVE ToPassengers(_, _)
\* the set of results of mapping demand_to_passenger over the batch
ToPassengers(batch, id) ==
    IF batch = <<>> THEN {<<>>}
    ELSE {<<p>> \o rest : p \in demand_to_passenger(Head(batch), id),
                          rest \in ToPassengers(Tail(batch), id + 1)}

\* update_agents: the batch of the generator becomes passengers of the pool
StaticGenerate ==
    /\ st_pc = "generate"
    /\ \E draws \in SeqsUpTo(Demands, MaxBatch) :
          LET demand_queue == generate_scaled_amount(draws)
          IN /\ st_passenger_id + Len(demand_queue) <= MaxStaticPassengers
             /\ st_draws' = draws
             /\ \E passengers \in ToPassengers(demand_queue, st_passenger_id) :
                   st_pool' = st_pool \o passengers
             /\ st_passenger_id' = st_passenger_id + Len(demand_queue)
    /\ st_pc' = "move"
    /\ UNCHANGED <<st_time, st_trips, st_buses, st_spawns,
                   ordVars, dynVars, genVars, simVars, routeVars, passVars, findVars, agentVars>>

\* update_agents: every agent's move_self (active once its trip has begun),
\* in which passengers of the pool may get on and passengers aboard get off
\* into the pool; then the pool's update
StaticMove ==
    /\ st_pc = "move"
    /\ LET moved == [trip \in DOMAIN st_buses |->
                        [st_buses[trip] EXCEPT !.status =
                            IF st_time < st_trips[trip] THEN "Unactive" ELSE "Active"]]
       IN \/ st_buses' = moved /\ UNCHANGED st_pool
          \/ \E trip \in DOMAIN st_buses, i \in DOMAIN st_pool :
                /\ moved[trip].status = "Active"
                /\ st_buses' = [moved EXCEPT ![trip].passengers =
                                    Append(@, [st_pool[i] EXCEPT !.status = "OnBus"])]
                /\ st_pool' = RemoveAt(st_pool, i)
          \/ \E trip \in DOMAIN st_buses :
                /\ moved[trip].status = "Active" /\ moved[trip].passengers # <<>>
                /\ st_buses' = [moved EXCEPT ![trip].passengers = Tail(@)]
                /\ st_pool' = Append(st_pool,
                                [Head(moved[trip].passengers) EXCEPT !.status = "Finished"])
    /\ st_pc' = "spawn"
    /\ UNCHANGED <<st_time, st_trips, st_spawns, st_passenger_id, st_draws,
                   ordVars, dynVars, genVars, simVars, routeVars, passVars, findVars, agentVars>>

NextStatic == StaticSpawn \/ StaticGenerate \/ StaticMove

SpecStatic == InitStatic /\ [][NextStatic]_vars

\* C19: a trip that starts within the run has its vehicle spawned exactly
\* once: in the tick whose time t has start <= t < start + 1 minute and in
\* no other, so that once the clock has passed that minute there has been
\* exactly one spawn.
C19_SpawnedOnceInItsMinute ==
    [][\A trip \in DOMAIN st_trips : st_trips[trip] >= RunStart =>
          LET start == st_trips[trip]
          IN /\ st_spawns'[trip] <= 1
             /\ st_spawns'[trip] # st_spawns[trip] =>
                    (start <= st_time' /\ st_time' < start + Minute)
             /\ st_time' >= start + Minute => st_spawns'[trip] = 1]_vars

\* everyone who is or was a BusPassenger
StaticPassengers ==
    {st_pool[i] : i \in DOMAIN st_pool}
        \cup UNION {{st_buses[trip].passengers[i] : i \in DOMAIN st_buses[trip].passengers} :
                        trip \in DOMAIN st_buses}

MaxUpdates == 257

U8Max == 255        \* TravelStart(u8), Waiting(u8), TavelDest(u8)

\* Status
Status ==
    {Generated, OnBus, Expired}
        \cup UNION {{TravelStart(k), Waiting(k), TavelDest(k)} : k \in 0..U8Max}

InitPassenger ==
    /\ u_first \in Status
    /\ u_p = [NewPassenger(1, 1, 2, 0, 0) EXCEPT !.status = u_first]
    /\ u_n = 0 /\ u_pc = "live"
    /\ IdleOrder /\ IdleDyn /\ IdleGen /\ IdleSim /\ IdleRoute /\ IdleStatic
    /\ IdleFind /\ IdleAgent

\* one call of Passenger::update.  `ticks + 1` on Waiting(255) overflows the
\* u8: a build with overflow checks panics there, one without wraps to 0.
PassengerUpdate ==
    /\ u_pc = "live" /\ u_n < MaxUpdates
    /\ u_n' = u_n + 1
    /\ IF u_p.status = Waiting(U8Max)
       THEN \/ u_pc' = "panicked" /\ UNCHANGED u_p
            \/ u_p' = update(u_p) /\ UNCHANGED u_pc
       ELSE u_p' = update(u_p) /\ UNCHANGED u_pc
    /\ UNCHANGED <<u_first, ordVars, dynVars, genVars, simVars, routeVars, staticVars,
                   findVars, agentVars>>

NextPassenger == PassengerUpdate

SpecPassenger == InitPassenger /\ [][NextPassenger]_vars

\* C25: a call of update turns TravelStart(n) into TravelStart(n - 1), or
\* into Waiting(0) when n is 0; TavelDest(n) into TavelDest(n - 1), or into
\* Expired when n is 0; Waiting(k) into Waiting(k + 1); and leaves Generated,
\* OnBus and Expired as they are.  A passenger that started as TravelStart(n)
\* is Waiting after n + 1 calls and not before.
C25_UpdateCountsDown ==
    [][u_n' = u_n + 1 =>
        LET status == u_p.status
        IN /\ u_pc' = "live"
           /\ u_p'.status =
                CASE status.tag = "TravelStart" ->
                        IF status.n = 0 THEN Waiting(0) ELSE TravelStart(status.n - 1)
                  [] status.tag = "TavelDest" ->
                        IF status.n = 0 THEN Expired ELSE TavelDest(status.n - 1)
                  [] status.tag = "Waiting" -> Waiting(status.n + 1)
                  [] OTHER -> status
           /\ [u_p' EXCEPT !.status = status] = u_p
           /\ u_first.tag = "TravelStart" =>
                (u_p'.status.tag = "Waiting" <=> u_n' >= u_first.n + 1)]_vars

\* C38: the wait counter never overflows or wraps: a passenger that has
\* been waiting for n ticks in a row, for any n a run allows, has had n
\* successful updates and is Waiting(n).
C38_WaitCounterNeverWraps ==
    u_first = Waiting(0) => (u_pc = "live" /\ u_p.status = Waiting(u_n))

(***************************************************************************)
(* SpecFind: basic_route_finding called once, on any timetable of up to    *)
(* MaxFindTrips trips of two stops each.  Clock times are in minutes,      *)
(* stops lie on a line.                                                    *)
(***************************************************************************)
MaxFindTrips == 2

FindTick == 600         \* the tick of the call: 10:00
LookAhead == 20         \* Duration::minutes(20)
F64Max == 2147483647    \* f64::MAX, above every distance of the model

\* the stops the timetable can use, by position; ids count from 1 as in
\* create_network_data (stop_id += 1 before the first use)
FindStopPoint == <<0, 10, 20>>

\* NetworkTrip: the stops called at and the time at each
FindTrips ==
    {[stops |-> <<ab[1], ab[2]>>, timings |-> <<t, t + 1>>] :
        ab \in {pr \in (DOMAIN FindStopPoint) \X (DOMAIN FindStopPoint) : pr[1] # pr[2]},
        t \in {FindTick - 1, FindTick, FindTick + LookAhead - 1, FindTick + LookAhead}}

\* NetworkData of a timetable: trip ids count from 1; stops are the stops
\* some trip calls at; trips_from_stop lists, per stop, the trips calling
NetworkData(trips) ==
    LET used == UNION {Range(trips[t].stops) : t \in DOMAIN trips}
        calling(stop) == {t \in DOMAIN trips : stop \in Range(trips[t].stops)}
        RECURSIVE Listed(_, _)
        Listed(stop, t) ==
            IF t > Len(trips) THEN <<>>
            ELSE (IF t \in calling(stop) THEN <<t>> ELSE <<>>) \o Listed(stop, t + 1)
    IN [trips |-> trips,
        stops |-> [stop \in used |-> FindStopPoint[stop]],
        trips_from_stop |-> [stop \in used |-> Listed(stop, 1)]]

\* Control::walk_to_stop
walk_to_stop(destination, source) ==
    [kind |-> "walk", trip_id |-> 0, destination_stop |-> destination,
     source |-> <<"Err", source>>]

\* Control::take_bus; trip_id is the argument the call is given
take_bus(trip_id, source, destination) ==
    [kind |-> "bus", trip_id |-> trip_id, destination_stop |-> destination,
     source |-> <<"Ok", source>>]

\* the filter of basic_route_finding: the trip's time at source_stop is in
\* [tick, tick + 20 minutes)
DepartsSoon(network_data, trip, source_stop, tick) ==
    LET trip_data == network_data.trips[trip]
        i == CHOOSE k \in DOMAIN trip_data.stops :
                /\ trip_data.stops[k] = source_stop
                /\ \A j \in 1..(k - 1) : trip_data.stops[j] # source_stop
        trip_arrival_time == trip_data.timings[i]
    IN trip_arrival_time >= tick /\ trip_arrival_time < tick + LookAhead

RECURSIVE ClosestOnTrip(_, _, _, _, _)
\* `for stop in trip_stops`: <<min_trip_stop_dist, min_trip_stop>>
ClosestOnTrip(network_data, trip_stops, dest_stop, i, acc) ==
    IF i > Len(trip_stops) THEN acc
    ELSE LET dist == distance(network_data.stops[trip_stops[i]], network_data.stops[dest_stop])
         IN ClosestOnTrip(network_data, trip_stops, dest_stop, i + 1,
                          IF dist < acc[1] THEN <<dist, trip_stops[i]>> ELSE acc)

RECURSIVE ScanTrips(_, _, _, _, _, _)
\* `for trip in trips_from_source.iter().filter(..)`:
\* <<min_trip_dist, min_trip, min_trip_end_stop>>
ScanTrips(network_data, trips_from_source, source_stop, dest_stop, tick, acc) ==
    IF trips_from_source = <<>> THEN acc
    ELSE LET trip == Head(trips_from_source)
             closest == ClosestOnTrip(network_data, network_data.trips[trip].stops,
                                      dest_stop, 1, <<F64Max, 0>>)
         IN ScanTrips(network_data, Tail(trips_from_source), source_stop, dest_stop, tick,
                      IF DepartsSoon(network_data, trip, source_stop, tick)
                            /\ closest[1] < acc[1]
                      THEN <<closest[1], trip, closest[2]>> ELSE acc)

\* basic_route_finding
basic_route_finding(source_stop, dest_stop, source_pos, tick, network_data) ==
    LET min == ScanTrips(network_data, network_data.trips_from_stop[source_stop],
                         source_stop, dest_stop, tick, <<F64Max, 0, 0>>)
        min_trip == min[2]
        min_trip_end_stop == min[3]
    IN <<walk_to_stop(source_stop, source_pos),
         take_bus(min_trip, source_stop, min_trip_end_stop),
         [kind |-> "walk", trip_id |-> 0, destination_stop |-> dest_stop,
          source |-> <<"Ok", min_trip_end_stop>>]>>

\* the calls demand_to_passenger can make: source and destination are
\* stops of the network (closest_stop_to_point), the passenger is somewhere
\* near the source stop
InitFind ==
    /\ \E trips \in SeqsUpTo(FindTrips, MaxFindTrips) \ {<<>>} :
       \E source_stop \in DOMAIN NetworkData(trips).stops,
          dest_stop \in DOMAIN NetworkData(trips).stops :
            f_in = [network_data |-> NetworkData(trips), source_stop |-> source_stop,
                    dest_stop |-> dest_stop, source_pos |-> FindStopPoint[source_stop] + 1]
    /\ f_out = <<>> /\ f_pc = "call"
    /\ IdleOrder /\ IdleDyn /\ IdleGen /\ IdleSim /\ IdleRoute /\ IdleStatic /\ IdlePass
    /\ IdleAgent

FindCall ==
    /\ f_pc = "call"
    /\ f_out' = basic_route_finding(f_in.source_stop, f_in.dest_stop, f_in.source_pos,
                                    FindTick, f_in.network_data)
    /\ f_pc' = "returned"
    /\ UNCHANGED <<f_in, ordVars, dynVars, genVars, simVars, routeVars, staticVars, passVars,
                   agentVars>>

NextFind == FindCall

SpecFind == InitFind /\ [][NextFind]_vars

\* whether some trip calls at the source stop of the call within the window
SomeTripSoon ==
    \E trip \in DOMAIN f_in.network_data.trips :
        /\ f_in.source_stop \in Range(f_in.network_data.trips[trip].stops)
        /\ DepartsSoon(f_in.network_data, trip, f_in.source_stop, FindTick)

\* C37: every instruction returned names stops of network_data.stops, and
\* the bus leg a trip calling at the source stop within the 20 minutes after
\* the tick; also when no trip calls there in that time.
C37_InstructionsNameRealStops ==
    f_pc = "returned" =>
        \A i \in DOMAIN f_out :
            /\ f_out[i].destination_stop \in DOMAIN f_in.network_data.stops
            /\ f_out[i].source[1] = "Ok" =>
                    f_out[i].source[2] \in DOMAIN f_in.network_data.stops
            /\ f_out[i].kind = "bus" =>
                    /\ f_out[i].trip_id \in DOMAIN f_in.network_data.trips
                    /\ f_in.source_stop
                            \in Range(f_in.network_data.trips[f_out[i].trip_id].stops)
                    /\ DepartsSoon(f_in.network_data, f_out[i].trip_id, f_in.source_stop,
                                   FindTick)

(***************************************************************************)
(* SpecAgent: one static vehicle, built by StaticAgent::new for a trip of  *)
(* three stops and moved by move_agent tick after tick.  The road is a     *)
(* line of four nodes, 4 apart, joined by three edges; an edge is a        *)
(* polyline of one or two segments, stored from either end.  agent.rs has  *)
(* its own distance, point_on_linesegment and normalise, the same as       *)
(* bus.rs's.                                                               *)
(***************************************************************************)
NodeGap == 4            \* distance between neighbouring nodes
MaxBend == 2            \* furthest middle point of an edge from its lower node

\* NodeMeta.point
AgentNodePoint(n) == NodeGap * (n - 1)

\* EdgeMeta of edge e, which joins node e and node e + 1: `bend` is the
\* distance of its middle point from node e (0: none), `flipped` tells
\* whether the points are stored from node e + 1
AgentEdge(e, bend, flipped) ==
    LET lo == AgentNodePoint(e)
        hi == AgentNodePoint(e + 1)
        points == IF bend = 0 THEN <<lo, hi>> ELSE <<lo, lo + bend, hi>>
    IN IF flipped
       THEN [start_id |-> e + 1, end_id |-> e, points |-> Reverse(points),
             length |-> NodeGap]
       ELSE [start_id |-> e, end_id |-> e + 1, points |-> points, length |-> NodeGap]

\* the road graphs of the model
AgentGraphs ==
    {[node_map |-> 1..4,
      edge_map |-> <<AgentEdge(1, b[1], f[1]), AgentEdge(2, b[2], f[2]),
                     AgentEdge(3, b[3], f[3])>>,
      adjacency |-> <<(<<1>>), <<1, 2>>, <<2, 3>>, (<<3>>)>>,
      scale |-> 1] :
        b \in [1..3 -> 0..MaxBend], f \in [1..3 -> BOOLEAN]}

\* the trips of the model: three stops on the road, in the order of travel,
\* the first on the first edge and the last on the last
AgentTrips ==
    {<<s1, s2, s3>> : s1 \in 0..(NodeGap - 1), s2 \in NodeGap..(2 * NodeGap),
                      s3 \in (2 * NodeGap + 1)..(3 * NodeGap)}

\* closest_point_on_line_segment_to_point, on the line
closest_point_on_line_segment_to_point(segment, point) ==
    LET p1 == segment[1]
        p2 == segment[2]
        lo == IF p1 <= p2 THEN p1 ELSE p2
        hi == IF p1 <= p2 THEN p2 ELSE p1
    IN IF point < lo THEN lo ELSE IF point > hi THEN hi ELSE point

\* the length of the first i segments of a polyline
RECURSIVE LengthUpTo(_, _)
LengthUpTo(line, i) ==
    IF i = 0 THEN 0 ELSE LengthUpTo(line, i - 1) + distance(line[i], line[i + 1])

RECURSIVE ClosestOnEdge(_, _, _, _)
\* closest_point_on_edge_to_stop, `for i in 0..edge_data.points.len() - 1`:
\* [point, offset, distance]; distance -1 stands for f64::MAX
ClosestOnEdge(points, point, i, acc) ==
    IF i > Len(points) - 1 THEN acc
    ELSE LET point_on_segment ==
                closest_point_on_line_segment_to_point(<<points[i], points[i + 1]>>, point)
             pt_distance == distance(point_on_segment, point)
             offset == LengthUpTo(points, i - 1) + distance(points[i], point_on_segment)
         IN ClosestOnEdge(points, point, i + 1,
                IF acc.distance = -1 \/ pt_distance < acc.distance
                THEN [point |-> point_on_segment, offset |-> offset, distance |-> pt_distance]
                ELSE acc)

\* closest_point_on_edge_to_stop
closest_point_on_edge_to_stop(edge, graph, point) ==
    ClosestOnEdge(graph.edge_map[edge].points, point, 1,
                  [point |-> 0, offset |-> 0, distance |-> -1])

\* get_graph_edge_from_stop: the edges whose chord is nearest to the stop;
\* among equally near ones the HashMap's order decides
get_graph_edge_from_stop(stop, graph) ==
    LET d(e) == distance(closest_point_on_line_segment_to_point(
                            <<graph.edge_map[e].points[1],
                              graph.edge_map[e].points[Len(graph.edge_map[e].points)]>>, stop),
                         stop)
    IN {e \in DOMAIN graph.edge_map : \A other \in DOMAIN graph.edge_map : d(e) <= d(other)}

\* the end of an edge nearer to a point, the start on a tie
NearerEnd(edge_data, point) ==
    IF distance(AgentNodePoint(edge_data.start_id), point)
            <= distance(AgentNodePoint(edge_data.end_id), point)
    THEN edge_data.start_id ELSE edge_data.end_id

RECURSIVE RouteFrom(_, _, _, _)
\* convert_trip_to_graph_path, `for i in 0..edges.len()` from its second turn
RouteFrom(graph, edges, i, route) ==
    IF i > Len(edges) THEN route
    ELSE LET prev_node == route[Len(route)]
             target_node == NearerEnd(graph.edge_map[edges[i]], AgentNodePoint(prev_node))
         IN RouteFrom(graph, edges, i + 1,
                      route \o Reverse(find_route(graph, prev_node, target_node)))

\* convert_trip_to_graph_path, given the edge of every stop
convert_trip_to_graph_path(trip, graph, edges) ==
    RouteFrom(graph, edges, 2, <<NearerEnd(graph.edge_map[edges[1]], trip[2])>>)

\* StaticAgent::new, given the edge of every stop
NewAgent(trip, graph, edges) ==
    LET trip_route == convert_trip_to_graph_path(trip, graph, edges)
        route_beginning_node == trip_route[1]
        route_beginning_edge == edges[1]
        edge_data == graph.edge_map[route_beginning_edge]
    IN [graph |-> graph,
        stops |-> trip,
        remaining_route |-> trip_route,
        current_element |->
            [edge |-> route_beginning_edge,
             prev_node |-> IF edge_data.start_id = route_beginning_node
                           THEN edge_data.end_id ELSE edge_data.start_id],
        trip_stop_edges |->
            [i \in DOMAIN trip |->
                <<edges[i], closest_point_on_edge_to_stop(edges[i], graph, trip[i]).offset>>],
        next_node |-> route_beginning_node,
        position |-> closest_point_on_edge_to_stop(route_beginning_edge, graph, trip[1]).point,
        status |-> "Unactive"]

\* move_agent, the loop over trip_stop_edges after a segment has been
\* finished: the indices of the stops whose stop_check is called
StopChecks(agent, moving_edge_id, prev_offset, new_offset) ==
    SelectSeq([i \in DOMAIN agent.trip_stop_edges |-> i],
              LAMBDA i : /\ agent.trip_stop_edges[i][1] = moving_edge_id
                         /\ agent.trip_stop_edges[i][2] > prev_offset
                         /\ agent.trip_stop_edges[i][2] <= new_offset)

RECURSIVE AgentSegments(_, _, _, _, _)
\* move_agent: `for i in 0..line.len() - 1`.  `st` holds the vehicle, the
\* budget left, has_moved, whether the function returned inside the loop,
\* the stop checks made and the stretches covered so far in this call.
AgentSegments(st, moving_edge_id, line, i, has_moved) ==
    IF i > Len(line) - 1 THEN [st EXCEPT !.has_moved = has_moved]
    ELSE LET segment_start == line[i]
             segment_end == line[i + 1]
             position == st.agent.position
         IN IF point_on_linesegment(position, segment_start, segment_end)
            THEN LET prev_offset == LengthUpTo(line, i - 1) + distance(segment_start, position)
                     distance_remaining == distance(position, segment_end)
                 IN IF st.md > distance_remaining
                    THEN LET new_offset == LengthUpTo(line, i - 1)
                                              + distance(segment_start, segment_end)
                         IN AgentSegments(
                                [st EXCEPT !.agent.position = segment_end,
                                           !.md = @ - distance_remaining,
                                           !.checks = @ \o StopChecks(st.agent, moving_edge_id,
                                                                     prev_offset, new_offset),
                                           !.legs = Append(@, <<moving_edge_id, position,
                                                                segment_end>>)],
                                moving_edge_id, line, i + 1, TRUE)
                    ELSE LET stop == position + normalise(segment_end - segment_start) * st.md
                         IN [st EXCEPT !.agent.position = stop,
                                       !.legs = Append(@, <<moving_edge_id, position, stop>>),
                                       !.has_moved = has_moved,
                                       !.returned = TRUE]
            ELSE AgentSegments(st, moving_edge_id, line, i + 1, has_moved)

\* the first edge of adjacency[node] with an end at `target`
AgentFindEdge(graph, node, target) ==
    LET adj == graph.adjacency[node]
        hits == {i \in 1..Len(adj) : graph.edge_map[adj[i]].start_id = target
                                        \/ graph.edge_map[adj[i]].end_id = target}
    IN adj[CHOOSE i \in hits : \A j \in hits : i <= j]

RECURSIVE AgentTurns(_)
\* move_agent: `while move_distance > 0.0`, to the end of the call
AgentTurns(st) ==
    LET agent == st.agent
        moving_edge_id == agent.current_element.edge
        points == agent.graph.edge_map[moving_edge_id].points
        next_point == AgentNodePoint(agent.next_node)
    IN IF next_point # points[1] /\ next_point # points[Len(points)]
       THEN [st EXCEPT !.end = "panic"]
       ELSE
       LET line == IF next_point = points[1] THEN Reverse(points) ELSE points
           seg == AgentSegments([st EXCEPT !.has_moved = FALSE], moving_edge_id, line, 1, FALSE)
       IN IF seg.returned \/ ~seg.has_moved THEN seg
          ELSE
          LET current_node == agent.next_node
          IN IF seg.agent.remaining_route = <<>>
             THEN [seg EXCEPT !.agent.current_element = [node |-> current_node]]
             ELSE LET next_node == Head(seg.agent.remaining_route)
                  IN AgentTurns(
                        [seg EXCEPT !.agent.remaining_route = Tail(@),
                                    !.agent.current_element =
                                        [edge |-> AgentFindEdge(agent.graph, current_node,
                                                                next_node),
                                         prev_node |-> current_node],
                                    !.agent.next_node = next_node])

\* move_agent
move_agent(agent) ==
    IF agent.remaining_route = <<>>
    THEN [agent |-> [agent EXCEPT !.status = "Unactive"], md |-> MoveDistance,
          has_moved |-> FALSE, returned |-> TRUE, checks |-> <<>>, legs |-> <<>>,
          end |-> "destroyed"]
    ELSE AgentTurns([agent |-> agent, md |-> MoveDistance, has_moved |-> FALSE,
                     returned |-> FALSE, checks |-> <<>>, legs |-> <<>>, end |-> "return"])

InitAgent ==
    /\ \E graph \in AgentGraphs, trip \in AgentTrips :
       \E edges \in [DOMAIN trip -> DOMAIN graph.edge_map] :
          /\ \A i \in DOMAIN trip : edges[i] \in get_graph_edge_from_stop(trip[i], graph)
          /\ a_agent = NewAgent(trip, graph, edges)
    /\ a_checks = <<>> /\ a_legs = <<>> /\ a_pc = "move"
    /\ IdleOrder /\ IdleDyn /\ IdleGen /\ IdleSim /\ IdleRoute /\ IdleStatic /\ IdlePass
    /\ IdleFind

\* one call of move_agent on an active vehicle
AgentMove ==
    /\ a_pc = "move"
    /\ LET r == move_agent([a_agent EXCEPT !.status = "Active"])
       IN /\ a_agent' = r.agent
          /\ a_checks' = r.checks
          /\ a_legs' = r.legs
          /\ a_pc' = CASE r.end = "panic" -> "panicked"
                       [] r.end = "destroyed" -> "done"
                       [] OTHER -> "move"
    /\ UNCHANGED <<ordVars, dynVars, genVars, simVars, routeVars, staticVars, passVars,
                   findVars>>

NextAgent == AgentMove

SpecAgent == InitAgent /\ [][NextAgent]_vars

\* the offset, from the first point of the edge, of a position on it
OffsetOn(graph, edge, position) ==
    closest_point_on_edge_to_stop(edge, graph, position).offset

\* whether a stretch <<edge, from, to>> takes the vehicle over the i-th
\* stop of the trip: on the stop's edge, from an offset before the stop's
\* (in the direction travelled) to the stop's offset or beyond
Crosses(agent, leg, i) ==
    LET p == OffsetOn(agent.graph, leg[1], leg[2])
        q == OffsetOn(agent.graph, leg[1], leg[3])
        offset == agent.trip_stop_edges[i][2]
    IN /\ leg[1] = agent.trip_stop_edges[i][1]
       /\ \/ p < offset /\ offset <= q
          \/ q <= offset /\ offset < p

\* C31: whenever, in a tick, the vehicle moves on a stop's edge from an
\* offset before the stop's offset to that offset or past it, in either
\* direction and wherever the move ends, the stop check is made for that
\* stop, once for each such crossing.
C31_StopCheckFiresOnCrossing ==
    \A i \in DOMAIN a_agent.trip_stop_edges :
        LET crossings == {k \in DOMAIN a_legs : Crosses(a_agent, a_legs[k], i)}
            checks == {k \in DOMAIN a_checks : a_checks[k] = i}
        IN crossings # {} => Cardinality(checks) = Cardinality(crossings)
====
